---- MODULE Spec2Model ----
(***************************************************************************)
(* Peer pairing and signaling relay of the GuffGaff backend.               *)
(*                                                                         *)
(* The repository holds several variants of the same server.  Each variant *)
(* is a ConnectionManager object (users, partnerships, waitingQueue,       *)
(* roomCounter, rooms, connectionTimeouts) driven by socket.io handlers    *)
(* that run to completion one at a time.  One handler is one action.       *)
(*                                                                         *)
(*   T_  the timeout-enabled server          src/unnamed/part_002          *)
(*   M_  the modular server                  src/server/services/          *)
(*                                           ConnectionManager.ts,         *)
(*                                           socketHandlers, part_000      *)
(*   S_  the setupSocketHandlers server      src/server/textChat/          *)
(*                                           ConnectionManager.js:150-272  *)
(*                                           with src/server/              *)
(*                                           ConnectionManager.js          *)
(*   R_  the MatchMaker / RoomManager server src/server_unused/services/   *)
(*                                           ConnectionManager.js          *)
(*   H_  the heartbeat server                src/index.js:663-1028         *)
(*   L_  the capacity-limited server         src/unnamed/part_001          *)
(*   X_  the text-chat server                src/server/textChat/          *)
(*                                                                         *)
(* Socket ids are numbers, room id `room_<n>` is the number n, and         *)
(* JavaScript null/undefined is NULL.  A socket id is never reused: a      *)
(* socket goes from "new" to "open" to "closed".                           *)
(*                                                                         *)
(* Left out: the timestamps (createdAt, lastActivity, joinedAt, ...), the  *)
(* payloads (sdp, candidate) and the per-room fields signalingState,       *)
(* iceCandidates and connectionAttempts, which the handlers write and no   *)
(* code reads.                                                             *)
(*                                                                         *)
(* Spec<X> runs a server with NumPeers socket ids and MaxRooms rooms,      *)
(* Spec<X>Wide with one more of each.  SpecTCalls drives the               *)
(* ConnectionManager of part_002 by single method calls instead of         *)
(* handlers; the contracts of the methods are checked there.  SpecTQueued, *)
(* SpecLCalls and SpecXCalls add direct method calls to the handlers where *)
(* the handlers alone never reach the states a property is about;          *)
(* SpecRShared and SpecXDequeuing complete a wiring that leaves the        *)
(* matching path dead.  Each says so where it is defined.                  *)
(***************************************************************************)
EXTENDS Integers, Sequences, FiniteSets, TLC

\* Number of socket ids that may ever connect.
NumPeers == 2
\* find-match creates no room once roomCounter has reached the cap.
MaxRooms == 1

NULL == 0
Peers == 1..NumPeers
WidePeers == 1..(NumPeers + 1)
WideRooms == MaxRooms + 1
BROADCAST == -1

VARIABLES
    users,              \* Map socketId -> user record
    partnerships,       \* Map socketId -> partner socketId
    waitingQueue,       \* array of socketIds
    roomCounter,        \* number
    rooms,              \* Map roomId -> room record
    connectionTimeouts, \* keys of the Map roomId -> timer handle
    pendingTimers,      \* roomIds whose setTimeout is armed (not fired, not cleared)
    socketState,        \* socket.io connection of each id: "new", "open", "closed"
    emitted,            \* events emitted by the handler that ran last
    blockedPairs,       \* MatchMaker.blockedPairs: Set of <<userId1, userId2>>
    matches,            \* TextChatConnectionManager.matches: Map matchId -> match
    matchCounter,       \* number of match ids handed out so far
    suspended           \* createMatch calls waiting at their await

vars == <<users, partnerships, waitingQueue, roomCounter, rooms,
          connectionTimeouts, pendingTimers, socketState, emitted,
          blockedPairs, matches, matchCounter, suspended>>

----------------------------------------------------------------------------
(* JavaScript Map and Array helpers *)

Has(m, k) == k \in DOMAIN m
Get(m, k) == IF k \in DOMAIN m THEN m[k] ELSE NULL
MapSet(m, k, v) == [x \in (DOMAIN m) \cup {k} |-> IF x = k THEN v ELSE m[x]]
MapDelete(m, k) == [x \in (DOMAIN m) \ {k} |-> m[x]]
EmptyMap == [x \in {} |-> NULL]

Includes(arr, x) == \E i \in 1..Len(arr) : arr[i] = x
\* Array.prototype.indexOf, 1-based; 0 when absent
IndexOf(arr, x) ==
    IF Includes(arr, x)
    THEN CHOOSE i \in 1..Len(arr) : arr[i] = x /\ \A j \in 1..(i - 1) : arr[j] # x
    ELSE 0
\* Array.prototype.splice(index, 1)
Splice1(arr, i) == [j \in 1..(Len(arr) - 1) |-> IF j < i THEN arr[j] ELSE arr[j + 1]]
\* Array.prototype.find over a two-element participants array
FindOther(participants, x) ==
    IF participants[1] # x THEN participants[1]
    ELSE IF participants[2] # x THEN participants[2]
    ELSE NULL

\* The ConnectionManager object (with the armed timers of the event loop)
CM == [users |-> users, partnerships |-> partnerships, waitingQueue |-> waitingQueue,
       roomCounter |-> roomCounter, rooms |-> rooms,
       connectionTimeouts |-> connectionTimeouts, pendingTimers |-> pendingTimers,
       blockedPairs |-> blockedPairs, matches |-> matches,
       matchCounter |-> matchCounter, suspended |-> suspended]

Commit(cm) ==
    /\ users' = cm.users
    /\ partnerships' = cm.partnerships
    /\ waitingQueue' = cm.waitingQueue
    /\ roomCounter' = cm.roomCounter
    /\ rooms' = cm.rooms
    /\ connectionTimeouts' = cm.connectionTimeouts
    /\ pendingTimers' = cm.pendingTimers
    /\ blockedPairs' = cm.blockedPairs
    /\ matches' = cm.matches
    /\ matchCounter' = cm.matchCounter
    /\ suspended' = cm.suspended

\* What a method call leaves behind: the object and the returned value
Result(cm, ret) == [cm |-> cm, ret |-> ret]

\* socket.emit / io.to(id).emit / io.emit
Msg(to, event, peerId, fromPeerId, roomId, isInitiator) ==
    [to |-> to, event |-> event, peerId |-> peerId, fromPeerId |-> fromPeerId,
     roomId |-> roomId, isInitiator |-> isInitiator]
StatsMsg(stats) == [to |-> BROADCAST, event |-> "stats-update", stats |-> stats]

\* the null a room lookup returns, as a record so that it compares with room records
NoRoom == [roomId |-> NULL]

Emit(msgs) == emitted' = msgs

Signals == {"offer", "answer", "ice-candidate"}

Init ==
    /\ users = EmptyMap
    /\ partnerships = EmptyMap
    /\ waitingQueue = <<>>
    /\ roomCounter = 0
    /\ rooms = EmptyMap
    /\ connectionTimeouts = {}
    /\ pendingTimers = {}
    /\ socketState = [p \in WidePeers |-> "new"]
    /\ emitted = {}
    /\ blockedPairs = {}
    /\ matches = EmptyMap
    /\ matchCounter = 0
    /\ suspended = {}

----------------------------------------------------------------------------
(* T: the timeout-enabled server, src/unnamed/part_002 *)

T_NewUser(socketId) ==
    [id |-> socketId, inCall |-> FALSE, room |-> NULL,
     connectionAttempts |-> 0, signalingState |-> "new"]

T_addUser(cm, socketId) ==
    Result([cm EXCEPT !.users = MapSet(@, socketId, T_NewUser(socketId))], NULL)

\* T_addToWaitingQueue without the waitingQueue.includes test
T_addToWaitingQueue_NoDedupe(cm, socketId) ==
    IF ~Has(cm.users, socketId) THEN Result(cm, FALSE)
    ELSE Result([cm EXCEPT !.waitingQueue = Append(@, socketId)], TRUE)

T_addToWaitingQueue(cm, socketId) ==
    IF ~Has(cm.users, socketId) THEN Result(cm, FALSE)
    ELSE IF ~Includes(cm.waitingQueue, socketId)
    THEN Result([cm EXCEPT !.waitingQueue = Append(@, socketId)], TRUE)
    ELSE Result(cm, FALSE)

T_removeFromWaitingQueue(cm, socketId) ==
    LET index == IndexOf(cm.waitingQueue, socketId) IN
    IF index > 0
    THEN Result([cm EXCEPT !.waitingQueue = Splice1(@, index)], TRUE)
    ELSE Result(cm, FALSE)

\* T_getNextWaitingUser that takes from the end of the queue (pop for shift)
RECURSIVE T_getNextWaitingUser_Lifo(_)
T_getNextWaitingUser_Lifo(cm) ==
    IF Len(cm.waitingQueue) > 0
    THEN LET nextUserId == cm.waitingQueue[Len(cm.waitingQueue)]
             popped == [cm EXCEPT !.waitingQueue = SubSeq(@, 1, Len(@) - 1)]
         IN IF Has(cm.users, nextUserId) /\ ~cm.users[nextUserId].inCall
            THEN Result(popped, nextUserId)
            ELSE T_getNextWaitingUser_Lifo(popped)
    ELSE Result(cm, NULL)

RECURSIVE T_getNextWaitingUser(_)
T_getNextWaitingUser(cm) ==
    IF Len(cm.waitingQueue) > 0
    THEN LET nextUserId == Head(cm.waitingQueue)
             shifted == [cm EXCEPT !.waitingQueue = Tail(@)]
         IN IF Has(cm.users, nextUserId) /\ ~cm.users[nextUserId].inCall
            THEN Result(shifted, nextUserId)
            ELSE T_getNextWaitingUser(shifted)
    ELSE Result(cm, NULL)

\* T_clearRoomTimeout that calls clearTimeout and forgets connectionTimeouts.delete
T_clearRoomTimeout_KeepsEntry(cm, roomId) ==
    IF roomId \in cm.connectionTimeouts
    THEN [cm EXCEPT !.pendingTimers = @ \ {roomId}]
    ELSE cm

\* clearTimeout(connectionTimeouts.get(roomId)); connectionTimeouts.delete(roomId)
T_clearRoomTimeout(cm, roomId) ==
    IF roomId \in cm.connectionTimeouts
    THEN [cm EXCEPT !.pendingTimers = @ \ {roomId}, !.connectionTimeouts = @ \ {roomId}]
    ELSE cm

\* T_resetUser that clears inCall and forgets to clear room
T_resetUser_KeepsRoom(us, id) ==
    IF Has(us, id)
    THEN [us EXCEPT ![id].inCall = FALSE, ![id].signalingState = "new"]
    ELSE us

\* the reset of one user record in breakPartnership
T_resetUser(us, id) ==
    IF Has(us, id)
    THEN [us EXCEPT ![id].inCall = FALSE, ![id].room = NULL, ![id].signalingState = "new"]
    ELSE us

\* T_breakPartnership that takes the peer out of the waiting queue when it has
\* no partner
T_breakPartnership_Dequeues(cm, socketId) ==
    LET partnerId == Get(cm.partnerships, socketId) IN
    IF partnerId # NULL
    THEN LET hasRoom == Has(cm.users, socketId) /\ cm.users[socketId].room # NULL
             room == IF hasRoom THEN cm.users[socketId].room ELSE NULL
             c1 == IF hasRoom
                   THEN [T_clearRoomTimeout(cm, room) EXCEPT !.rooms = MapDelete(@, room)]
                   ELSE cm
             c2 == [c1 EXCEPT !.users = T_resetUser(T_resetUser(@, socketId), partnerId)]
             c3 == [c2 EXCEPT !.partnerships = MapDelete(MapDelete(@, socketId), partnerId)]
         IN Result(c3, partnerId)
    ELSE Result([cm EXCEPT !.waitingQueue =
                    IF IndexOf(@, socketId) > 0 THEN Splice1(@, IndexOf(@, socketId)) ELSE @],
                NULL)

T_breakPartnership(cm, socketId) ==
    LET partnerId == Get(cm.partnerships, socketId) IN
    IF partnerId # NULL
    THEN LET hasRoom == Has(cm.users, socketId) /\ cm.users[socketId].room # NULL
             room == IF hasRoom THEN cm.users[socketId].room ELSE NULL
             c1 == IF hasRoom
                   THEN [T_clearRoomTimeout(cm, room) EXCEPT !.rooms = MapDelete(@, room)]
                   ELSE cm
             c2 == [c1 EXCEPT !.users = T_resetUser(T_resetUser(@, socketId), partnerId)]
             c3 == [c2 EXCEPT !.partnerships = MapDelete(MapDelete(@, socketId), partnerId)]
         IN Result(c3, partnerId)
    ELSE Result(cm, NULL)

T_setConnectionTimeout(cm, roomId) ==
    LET c1 == IF roomId \in cm.connectionTimeouts
              THEN [cm EXCEPT !.pendingTimers = @ \ {roomId}]
              ELSE cm
    IN [c1 EXCEPT !.pendingTimers = @ \cup {roomId},
                  !.connectionTimeouts = @ \cup {roomId}]

T_createPartnership(cm, socket1Id, socket2Id) ==
    LET c1 == T_breakPartnership(cm, socket1Id).cm
        c2 == T_breakPartnership(c1, socket2Id).cm
        roomId == c2.roomCounter + 1
        room == [id |-> roomId,
                 participants |-> <<socket1Id, socket2Id>>,
                 state |-> "connecting"]
        c3 == [c2 EXCEPT !.roomCounter = roomId,
                         !.rooms = MapSet(@, roomId, room),
                         !.partnerships = MapSet(MapSet(@, socket1Id, socket2Id),
                                                 socket2Id, socket1Id)]
        c4 == IF Has(c3.users, socket1Id) /\ Has(c3.users, socket2Id)
              THEN [c3 EXCEPT !.users =
                       [[@ EXCEPT ![socket1Id].inCall = TRUE, ![socket1Id].room = roomId]
                           EXCEPT ![socket2Id].inCall = TRUE, ![socket2Id].room = roomId]]
              ELSE c3
    IN Result(T_setConnectionTimeout(c4, roomId), roomId)

\* the forEach of the timer callback, one participant
T_failUser(us, id) ==
    IF Has(us, id)
    THEN [us EXCEPT ![id].connectionAttempts = @ + 1, ![id].inCall = FALSE,
                    ![id].room = NULL]
    ELSE us

\* T_timeoutCallback without its closing breakPartnership call
T_timeoutCallback_NoBreak(cm, roomId) ==
    IF Has(cm.rooms, roomId) /\ cm.rooms[roomId].state = "connecting"
    THEN LET ps == cm.rooms[roomId].participants
             c1 == [cm EXCEPT !.rooms[roomId].state = "failed"]
         IN [c1 EXCEPT !.users = T_failUser(T_failUser(@, ps[1]), ps[2])]
    ELSE cm

\* the function handed to setTimeout in setConnectionTimeout
T_timeoutCallback(cm, roomId) ==
    IF Has(cm.rooms, roomId) /\ cm.rooms[roomId].state = "connecting"
    THEN LET ps == cm.rooms[roomId].participants
             c1 == [cm EXCEPT !.rooms[roomId].state = "failed"]
             c2 == [c1 EXCEPT !.users = T_failUser(T_failUser(@, ps[1]), ps[2])]
         IN T_breakPartnership(c2, ps[1]).cm
    ELSE cm

T_findRoomByPeerId(cm, peerId) ==
    IF ~Has(cm.users, peerId) \/ cm.users[peerId].room = NULL THEN NoRoom
    ELSE IF ~Has(cm.rooms, cm.users[peerId].room) THEN NoRoom
    ELSE LET room == cm.rooms[cm.users[peerId].room]
         IN [roomId |-> room.id, participants |-> room.participants, state |-> room.state]

T_updateRoomState(cm, roomId, state, peerId) ==
    IF Has(cm.rooms, roomId)
    THEN IF state = "connected"
         THEN T_clearRoomTimeout([cm EXCEPT !.rooms[roomId].state = "active"], roomId)
         ELSE cm
    ELSE cm

\* T_removeUser without its closing removeFromWaitingQueue call
T_removeUser_KeepsQueued(cm, socketId) ==
    LET c1 == IF Has(cm.users, socketId) /\ cm.users[socketId].room # NULL
              THEN T_breakPartnership(cm, socketId).cm
              ELSE cm
    IN [c1 EXCEPT !.users = MapDelete(@, socketId)]

T_removeUser(cm, socketId) ==
    LET c1 == IF Has(cm.users, socketId) /\ cm.users[socketId].room # NULL
              THEN T_breakPartnership(cm, socketId).cm
              ELSE cm
        c2 == [c1 EXCEPT !.users = MapDelete(@, socketId)]
    IN T_removeFromWaitingQueue(c2, socketId).cm

T_getConnectionStats(cm) ==
    [totalUsers |-> Cardinality(DOMAIN cm.users),
     waitingUsers |-> Len(cm.waitingQueue),
     activePartnerships |->
         Cardinality({r \in DOMAIN cm.rooms : cm.rooms[r].state = "active"}),
     failedConnections |->
         Cardinality({r \in DOMAIN cm.rooms : cm.rooms[r].state = "failed"})]

WaitingMsg(to, position) == [to |-> to, event |-> "waiting", position |-> position]
ErrorMsg(to, event, type) == [to |-> to, event |-> event, type |-> type]
PartnerLeftMsg(to) == [to |-> to, event |-> "partner-left", reason |-> "Partner disconnected"]

\* values a client sends as the state of a connection-state event
ClientStates == {"connected", "disconnected"}

\* io.on("connection")
T_Connect(s) ==
    /\ socketState[s] = "new"
    /\ socketState' = [socketState EXCEPT ![s] = "open"]
    /\ LET c1 == T_addUser(CM, s).cm
       IN /\ Commit(c1)
          /\ Emit({StatsMsg(T_getConnectionStats(c1))})

\* T_FindMatch that sends isInitiator: true to both peers
T_FindMatch_BothInitiate(s, maxRooms) ==
    /\ socketState[s] = "open"
    /\ UNCHANGED socketState
    /\ LET next == T_getNextWaitingUser(CM)
           waitingPartnerId == next.ret
       IN IF waitingPartnerId # NULL
          THEN /\ roomCounter < maxRooms
               /\ LET made == T_createPartnership(next.cm, s, waitingPartnerId)
                      roomId == made.ret
                  IN /\ Commit(made.cm)
                     /\ Emit({Msg(s, "match", waitingPartnerId, NULL, roomId, TRUE),
                             Msg(waitingPartnerId, "match", s, NULL, roomId, TRUE),
                             StatsMsg(T_getConnectionStats(made.cm))})
          ELSE LET c1 == T_addToWaitingQueue(next.cm, s).cm
               IN /\ Commit(c1)
                  /\ Emit({WaitingMsg(s, Len(c1.waitingQueue)),
                          StatsMsg(T_getConnectionStats(c1))})

\* socket.on("find-match")
T_FindMatch(s, maxRooms) ==
    /\ socketState[s] = "open"
    /\ UNCHANGED socketState
    /\ LET next == T_getNextWaitingUser(CM)
           waitingPartnerId == next.ret
       IN IF waitingPartnerId # NULL
          THEN /\ roomCounter < maxRooms
               /\ LET made == T_createPartnership(next.cm, s, waitingPartnerId)
                      roomId == made.ret
                  IN /\ Commit(made.cm)
                     /\ Emit({Msg(s, "match", waitingPartnerId, NULL, roomId, FALSE),
                             Msg(waitingPartnerId, "match", s, NULL, roomId, TRUE),
                             StatsMsg(T_getConnectionStats(made.cm))})
          ELSE LET c1 == T_addToWaitingQueue(next.cm, s).cm
               IN /\ Commit(c1)
                  /\ Emit({WaitingMsg(s, Len(c1.waitingQueue)),
                          StatsMsg(T_getConnectionStats(c1))})

\* socket.on("offer") and socket.on("answer"): kind is "offer" or "answer"
T_OfferAnswer(s, kind, peerId, fromPeerId) ==
    /\ socketState[s] = "open"
    /\ UNCHANGED socketState
    /\ LET room == T_findRoomByPeerId(CM, fromPeerId)
       IN IF room = NoRoom
          THEN /\ Commit(CM)
               /\ Emit({ErrorMsg(s, "signaling-error", kind)})
          ELSE /\ Commit(T_updateRoomState(CM, room.roomId, kind \o "-sent", fromPeerId))
               /\ Emit({Msg(peerId, kind, NULL, fromPeerId, room.roomId, FALSE)})

T_Offer(s, peerId, fromPeerId) == T_OfferAnswer(s, "offer", peerId, fromPeerId)

T_Answer(s, peerId, fromPeerId) == T_OfferAnswer(s, "answer", peerId, fromPeerId)

\* socket.on("ice-candidate")
T_IceCandidate(s, peerId, fromPeerId) ==
    /\ socketState[s] = "open"
    /\ UNCHANGED socketState
    /\ Commit(CM)
    /\ LET room == T_findRoomByPeerId(CM, fromPeerId)
       IN IF room = NoRoom
          THEN Emit({ErrorMsg(s, "signaling-error", "ice-candidate")})
          ELSE LET otherPeer == FindOther(room.participants, fromPeerId)
               IN IF otherPeer = NULL
                  THEN Emit({ErrorMsg(s, "signaling-error", "ice-candidate")})
                  ELSE Emit({Msg(otherPeer, "ice-candidate", NULL, fromPeerId,
                                 room.roomId, FALSE)})

\* socket.on("connection-state")
T_ConnectionState(s, state, roomId) ==
    /\ socketState[s] = "open"
    /\ UNCHANGED socketState
    /\ LET c1 == T_updateRoomState(CM, roomId, state, s)
       IN /\ Commit(c1)
          /\ Emit({StatsMsg(T_getConnectionStats(c1))})

\* socket.on("disconnect")
T_Disconnect(s) ==
    /\ socketState[s] = "open"
    /\ socketState' = [socketState EXCEPT ![s] = "closed"]
    /\ LET broken == T_breakPartnership(CM, s)
           partnerId == broken.ret
           c1 == T_removeUser(broken.cm, s)
       IN /\ Commit(c1)
          /\ Emit((IF partnerId # NULL THEN {PartnerLeftMsg(partnerId)} ELSE {})
                  \cup {StatsMsg(T_getConnectionStats(c1))})

\* the event loop runs the armed timer of room roomId
T_TimerFire(roomId) ==
    /\ roomId \in pendingTimers
    /\ UNCHANGED socketState
    /\ Commit(T_timeoutCallback([CM EXCEPT !.pendingTimers = @ \ {roomId}], roomId))
    /\ Emit({})

NextT(P, maxRooms) ==
    \/ \E s \in P : T_Connect(s)
    \/ \E s \in P : T_FindMatch(s, maxRooms)
    \/ \E s, peerId, fromPeerId \in P : T_Offer(s, peerId, fromPeerId)
    \/ \E s, peerId, fromPeerId \in P : T_Answer(s, peerId, fromPeerId)
    \/ \E s, peerId, fromPeerId \in P : T_IceCandidate(s, peerId, fromPeerId)
    \/ \E s \in P, state \in ClientStates, roomId \in 1..maxRooms :
           T_ConnectionState(s, state, roomId)
    \/ \E s \in P : T_Disconnect(s)
    \/ \E roomId \in 1..maxRooms : T_TimerFire(roomId)

SpecT == Init /\ [][NextT(Peers, MaxRooms)]_vars

SpecTWide == Init /\ [][NextT(WidePeers, WideRooms)]_vars

----------------------------------------------------------------------------
(* Properties of the timeout-enabled server *)

Participants(room) == {room.participants[1], room.participants[2]}

\* C2: no peer id is a participant of two rooms that exist at the same time.
C2_SingleRoomPerPeer ==
    \A r1, r2 \in DOMAIN rooms :
        r1 # r2 => Participants(rooms[r1]) \cap Participants(rooms[r2]) = {}

\* C3: find-match never pairs a peer with itself: every room and every
\* partnership has two distinct participants.
C3_NoSelfPairing ==
    /\ \A r \in DOMAIN rooms : rooms[r].participants[1] # rooms[r].participants[2]
    /\ \A p \in DOMAIN partnerships : partnerships[p] # p

\* C5: whatever peerId and fromPeerId a connection s sends, an offer, answer or
\* ice-candidate it causes is delivered only to the current partner of s.
C5_RelayOnlyToPartner ==
    [][\A s, peerId, fromPeerId \in WidePeers :
          (\/ T_Offer(s, peerId, fromPeerId)
           \/ T_Answer(s, peerId, fromPeerId)
           \/ T_IceCandidate(s, peerId, fromPeerId))
          => \A m \in emitted' :
                 (m.event \in Signals /\ socketState[m.to] = "open")
                 => (Has(partnerships, s) /\ m.to = partnerships[s])]_vars

\* C7: when the connect timer of a room fires while the room is connecting, the
\* room is failed afterwards and both participants are unpartnered, with
\* inCall = false and room = null.
C7_TimeoutFailsAndUnpartners ==
    [][\A r \in DOMAIN rooms :
          (T_TimerFire(r) /\ rooms[r].state = "connecting")
          => /\ Has(rooms', r) /\ rooms'[r].state = "failed"
             /\ \A p \in Participants(rooms[r]) :
                    /\ ~Has(partnerships', p)
                    /\ Has(users', p)
                    /\ ~users'[p].inCall
                    /\ users'[p].room = NULL]_vars

\* a room has been failed by its timer and its participants are unpartnered
C7_Witness ==
    \E r \in DOMAIN rooms :
        /\ rooms[r].state = "failed"
        /\ r \notin pendingTimers
        /\ \A p \in Participants(rooms[r]) :
               ~Has(partnerships, p) /\ Has(users, p) /\ users[p].connectionAttempts > 0

\* C8: no state between events holds a room whose state is failed.
C8_FailedRoomDeleted ==
    \A r \in DOMAIN rooms : rooms[r].state # "failed"

\* C10: for every registered peer, inCall is true iff room is non-null.
C10_InCallIffRoom ==
    \A p \in DOMAIN users : users[p].inCall <=> (users[p].room # NULL)

\* createPartnership has put two registered peers in a call in one room
C10_Witness ==
    \E p, q \in DOMAIN users :
        /\ p # q
        /\ users[p].inCall /\ users[q].inCall
        /\ users[p].room # NULL /\ users[p].room = users[q].room
        /\ Has(rooms, users[p].room)

\* C11: a peer id is in the waiting queue if and only if it is registered and
\* its inCall flag is false.
C11_QueuedIffRegisteredIdle ==
    \A p \in WidePeers :
        Includes(waitingQueue, p) <=> (Has(users, p) /\ ~users[p].inCall)

\* C18: each successful find-match makes both matched peers receive a match
\* event carrying the same roomId, each naming the other as peerId, and exactly
\* one of the two peers receives isInitiator = true.
C18_MatchEventsPaired ==
    [][\A s \in WidePeers :
          LET waitingPartnerId == T_getNextWaitingUser(CM).ret
              roomId == roomCounter'
              matchMsgs == {m \in emitted' : m.event = "match"}
              initiators == {p \in {s, waitingPartnerId} :
                                \E m \in matchMsgs : m.to = p /\ m.isInitiator}
          IN (/\ waitingPartnerId # NULL
              /\ roomCounter' # roomCounter
              /\ T_FindMatch(s, WideRooms))
             => /\ Has(rooms', roomId) /\ ~Has(rooms, roomId)
                /\ Participants(rooms'[roomId]) = {s, waitingPartnerId}
                /\ \E m \in matchMsgs : m.to = s /\ m.peerId = waitingPartnerId
                /\ \E m \in matchMsgs : m.to = waitingPartnerId /\ m.peerId = s
                /\ \A m \in matchMsgs :
                       /\ m.roomId = roomId
                       /\ m.to \in {s, waitingPartnerId}
                       /\ m.peerId = partnerships'[m.to]
                /\ Cardinality(initiators) = 1
                /\ s # waitingPartnerId
                   => \A p \in {s, waitingPartnerId} :
                          Cardinality({m \in matchMsgs : m.to = p}) = 1]_vars

\* two different peers have just been sent the match events of one room
C18_Witness ==
    \E m1, m2 \in emitted :
        /\ m1.event = "match" /\ m2.event = "match"
        /\ m1.to # m2.to
        /\ m1.peerId = m2.to /\ m2.peerId = m1.to
        /\ m1.roomId = m2.roomId /\ Has(rooms, m1.roomId)
        /\ m1.isInitiator /\ ~m2.isInitiator

\* C19: when p1 and p2 are matched and p1 disconnects, p2 receives partner-left,
\* the shared room is removed from the rooms map, p1 is removed from users and
\* queue, and the stats-update broadcast after the disconnect reports
\* activePartnerships equal to 0 when no other room exists.
C19_DisconnectOfMatchedPeer ==
    [][\A p1 \in WidePeers :
          (T_Disconnect(p1) /\ Has(partnerships, p1))
          => LET p2 == partnerships[p1]
                 room == users[p1].room
                 stats == {m \in emitted' : m.event = "stats-update"}
             IN /\ PartnerLeftMsg(p2) \in emitted'
                /\ room # NULL /\ Has(rooms, room) /\ ~Has(rooms', room)
                /\ Participants(rooms[room]) = {p1, p2}
                /\ ~Has(users', p1)
                /\ ~Includes(waitingQueue', p1)
                /\ stats = {StatsMsg(T_getConnectionStats(CM'))}
                /\ DOMAIN rooms = {room}
                   => \A m \in stats : m.stats.activePartnerships = 0]_vars

\* a peer has disconnected, its partner is still connected and has just been
\* sent partner-left, and the room they shared is gone
C19_Witness ==
    /\ roomCounter > 0
    /\ rooms = EmptyMap
    /\ \E p1, p2 \in WidePeers :
           /\ p1 # p2
           /\ socketState[p1] = "closed" /\ socketState[p2] = "open"
           /\ ~Has(users, p1) /\ Has(users, p2)
           /\ PartnerLeftMsg(p2) \in emitted
           /\ \E m \in emitted :
                  m.event = "stats-update" /\ m.stats.activePartnerships = 0

\* the events that tell a peer that its partnership is over
TeardownEvents == {"partner-left", "signaling-error"}

\* C20: every time a partnership is torn down (the partner disconnects, the
\* partner issues a new find-match, or the connect timer expires) each peer of
\* it that remains connected is sent a notification in the same step.
C20_TeardownNotifiesPeers ==
    [][\A p \in DOMAIN partnerships :
          (/\ Get(partnerships', p) # partnerships[p]
           /\ socketState'[p] = "open")
          => \E m \in emitted' : m.to = p /\ m.event \in TeardownEvents]_vars

\* C21: once an answer has been relayed in a room that is connecting, the
\* connect timeout of that room is disarmed, so that no later timer expiry
\* fails the room or breaks the partnership.
C21_AnswerDisarmsTimer ==
    [][\A s, peerId, fromPeerId \in WidePeers :
          T_Answer(s, peerId, fromPeerId)
          => \A m \in emitted' :
                 (/\ m.event = "answer"
                  /\ Has(rooms, m.roomId)
                  /\ rooms[m.roomId].state = "connecting")
                 => /\ m.roomId \notin pendingTimers'
                    /\ m.roomId \notin connectionTimeouts']_vars

\* C22: a room moves from connecting to active and has its timer cancelled
\* only after both participants have reported "connected".  A room that is
\* connecting has had no "connected" report yet (the first one makes it
\* active), so a "connected" report on a connecting room is the report of one
\* participant alone and leaves the room connecting with its timer armed.
C22_ActiveNeedsBothReports ==
    [][\A s \in WidePeers : \A r \in DOMAIN rooms :
          (T_ConnectionState(s, "connected", r) /\ rooms[r].state = "connecting")
          => /\ Has(rooms', r)
             /\ rooms'[r].state = "connecting"
             /\ (r \in pendingTimers => r \in pendingTimers')]_vars

\* C23: a room whose state has become failed never afterwards has state
\* connecting or active, and a room that has been removed never comes back.
C23_FailedAndDeletedAreFinal ==
    [][/\ \A r \in DOMAIN rooms :
              rooms[r].state = "failed"
              => (Has(rooms', r) => rooms'[r].state = "failed")
       /\ \A r \in 1..roomCounter : ~Has(rooms, r) => ~Has(rooms', r)]_vars

\* C36: a connection-state event naming a room the sending connection is not
\* a participant of leaves that room and its timer unchanged.
C36_OnlyParticipantsChangeRoom ==
    [][\A s \in WidePeers, state \in ClientStates, roomId \in DOMAIN rooms :
          (/\ ~Includes(rooms[roomId].participants, s)
           /\ T_ConnectionState(s, state, roomId))
          => /\ Has(rooms', roomId)
             /\ rooms'[roomId] = rooms[roomId]
             /\ (roomId \in connectionTimeouts') = (roomId \in connectionTimeouts)
             /\ (roomId \in pendingTimers') = (roomId \in pendingTimers)]_vars

\* C30: in every stats-update, activePartnerships is the partnership map size
\* divided by 2, totalUsers the number of registered peers and waitingUsers the
\* queue length.
C30_StatsAreSizes ==
    \A m \in emitted :
        m.event = "stats-update"
        => /\ 2 * m.stats.activePartnerships = Cardinality(DOMAIN partnerships)
           /\ m.stats.totalUsers = Cardinality(DOMAIN users)
           /\ m.stats.waitingUsers = Len(waitingQueue)

----------------------------------------------------------------------------
(* M: the modular server. ConnectionManager of                            *)
(* src/server/services/ConnectionManager.ts, find-match of                 *)
(* src/server/socketHandlers/matchmakingHandler.ts, relay of               *)
(* src/unnamed/part_000, connection and disconnect as in src/index.js      *)
(* (495-499, 598-612), which wires the same ConnectionManager.             *)

\* a number divided by 2, as JavaScript computes it: whole + half/2
Half(n) == [whole |-> n \div 2, half |-> n % 2]

M_addUser(cm, socketId) ==
    IF ~Has(cm.users, socketId)
    THEN Result([cm EXCEPT !.users =
                    MapSet(@, socketId, [inCall |-> FALSE, room |-> NULL,
                                         connectionAttempts |-> 0])], TRUE)
    ELSE Result(cm, FALSE)

M_addToWaitingQueue(cm, socketId) ==
    IF ~Includes(cm.waitingQueue, socketId)
    THEN Result([cm EXCEPT !.waitingQueue = Append(@, socketId)], TRUE)
    ELSE Result(cm, FALSE)

M_removeFromWaitingQueue(cm, socketId) ==
    LET index == IndexOf(cm.waitingQueue, socketId) IN
    IF index > 0
    THEN Result([cm EXCEPT !.waitingQueue = Splice1(@, index)], TRUE)
    ELSE Result(cm, FALSE)

\* this.waitingQueue.shift() || null
M_getNextWaitingUser(cm) ==
    IF Len(cm.waitingQueue) > 0
    THEN Result([cm EXCEPT !.waitingQueue = Tail(@)], Head(cm.waitingQueue))
    ELSE Result(cm, NULL)

\* M_createPartnership that numbers the room by the size of the rooms map
M_createPartnership_IdFromSize(cm, socket1Id, socket2Id) ==
    LET roomId == Cardinality(DOMAIN cm.rooms) + 1
        room == [participants |-> <<socket1Id, socket2Id>>,
                 connectionStatus |-> "connecting"]
        c1 == [cm EXCEPT !.roomCounter = roomId,
                         !.partnerships = MapSet(MapSet(@, socket1Id, socket2Id),
                                                 socket2Id, socket1Id),
                         !.rooms = MapSet(@, roomId, room)]
        c2 == IF Has(c1.users, socket1Id) /\ Has(c1.users, socket2Id)
              THEN [c1 EXCEPT !.users =
                       [[@ EXCEPT ![socket1Id].inCall = TRUE, ![socket1Id].room = roomId]
                           EXCEPT ![socket2Id].inCall = TRUE, ![socket2Id].room = roomId]]
              ELSE c1
    IN Result(c2, roomId)

M_createPartnership(cm, socket1Id, socket2Id) ==
    LET roomId == cm.roomCounter + 1
        room == [participants |-> <<socket1Id, socket2Id>>,
                 connectionStatus |-> "connecting"]
        c1 == [cm EXCEPT !.roomCounter = roomId,
                         !.partnerships = MapSet(MapSet(@, socket1Id, socket2Id),
                                                 socket2Id, socket1Id),
                         !.rooms = MapSet(@, roomId, room)]
        c2 == IF Has(c1.users, socket1Id) /\ Has(c1.users, socket2Id)
              THEN [c1 EXCEPT !.users =
                       [[@ EXCEPT ![socket1Id].inCall = TRUE, ![socket1Id].room = roomId]
                           EXCEPT ![socket2Id].inCall = TRUE, ![socket2Id].room = roomId]]
              ELSE c1
    IN Result(c2, roomId)

M_resetUser(us, id) ==
    IF Has(us, id) THEN [us EXCEPT ![id].inCall = FALSE, ![id].room = NULL] ELSE us

M_breakPartnership(cm, socketId) ==
    LET partnerId == Get(cm.partnerships, socketId) IN
    IF partnerId # NULL
    THEN LET c1 == IF Has(cm.users, socketId) /\ cm.users[socketId].room # NULL
                   THEN [cm EXCEPT !.rooms = MapDelete(@, cm.users[socketId].room)]
                   ELSE cm
             c2 == [c1 EXCEPT !.users = M_resetUser(M_resetUser(@, socketId), partnerId)]
             c3 == [c2 EXCEPT !.partnerships = MapDelete(MapDelete(@, socketId), partnerId)]
         IN Result(c3, partnerId)
    ELSE Result(cm, NULL)

M_removeUser(cm, socketId) ==
    LET c1 == IF Has(cm.users, socketId) /\ cm.users[socketId].room # NULL
              THEN M_breakPartnership(cm, socketId).cm
              ELSE cm
        c2 == [c1 EXCEPT !.users = MapDelete(@, socketId)]
    IN M_removeFromWaitingQueue(c2, socketId).cm

\* the rooms Map is iterated in insertion order, which is the order of the ids
M_validatePeers(cm, fromPeerId, toPeerId) ==
    LET both == {r \in DOMAIN cm.rooms :
                    /\ Includes(cm.rooms[r].participants, fromPeerId)
                    /\ Includes(cm.rooms[r].participants, toPeerId)}
    IN IF both = {} THEN NoRoom
       ELSE LET roomId == CHOOSE r \in both : \A q \in both : r <= q
            IN [roomId |-> roomId, participants |-> cm.rooms[roomId].participants]

M_getConnectionStats(cm) ==
    [totalUsers |-> Cardinality(DOMAIN cm.users),
     waitingUsers |-> Len(cm.waitingQueue),
     activePartnerships |-> Half(Cardinality(DOMAIN cm.partnerships))]

\* io.on("connection")
M_Connect(s) ==
    /\ socketState[s] = "new"
    /\ socketState' = [socketState EXCEPT ![s] = "open"]
    /\ LET c1 == M_addUser(CM, s).cm
       IN /\ Commit(c1)
          /\ Emit({StatsMsg(M_getConnectionStats(c1))})

\* socket.on('find-match')
M_FindMatch(s, maxRooms) ==
    /\ socketState[s] = "open"
    /\ UNCHANGED socketState
    /\ LET next == M_getNextWaitingUser(CM)
           waitingPartnerId == next.ret
       IN IF waitingPartnerId # NULL
          THEN /\ roomCounter < maxRooms
               /\ LET made == M_createPartnership(next.cm, s, waitingPartnerId)
                      roomId == made.ret
                  IN /\ Commit(made.cm)
                     /\ Emit({Msg(s, "match", waitingPartnerId, NULL, roomId, TRUE),
                              Msg(waitingPartnerId, "match", s, NULL, roomId, FALSE),
                              StatsMsg(M_getConnectionStats(made.cm))})
          ELSE LET c1 == M_addToWaitingQueue(next.cm, s).cm
               IN /\ Commit(c1)
                  /\ Emit({[to |-> s, event |-> "waiting"],
                           StatsMsg(M_getConnectionStats(c1))})

\* socket.on('offer' | 'answer' | 'ice-candidate'): the three handlers differ
\* in the event name only
M_Relay(s, kind, peerId) ==
    /\ socketState[s] = "open"
    /\ UNCHANGED socketState
    /\ Commit(CM)
    /\ LET room == M_validatePeers(CM, s, peerId)
       IN IF room = NoRoom
          THEN Emit({ErrorMsg(s, "error", kind)})
          ELSE Emit({Msg(peerId, kind, NULL, s, room.roomId, FALSE)})

M_Offer(s, peerId) == M_Relay(s, "offer", peerId)

M_Answer(s, peerId) == M_Relay(s, "answer", peerId)

M_IceCandidate(s, peerId) == M_Relay(s, "ice-candidate", peerId)

\* socket.on("disconnect")
M_Disconnect(s) ==
    /\ socketState[s] = "open"
    /\ socketState' = [socketState EXCEPT ![s] = "closed"]
    /\ LET broken == M_breakPartnership(CM, s)
           partnerId == broken.ret
           c1 == M_removeUser(broken.cm, s)
       IN /\ Commit(c1)
          /\ Emit((IF partnerId # NULL THEN {PartnerLeftMsg(partnerId)} ELSE {})
                  \cup {StatsMsg(M_getConnectionStats(c1))})

NextM(P, maxRooms) ==
    \/ \E s \in P : M_Connect(s)
    \/ \E s \in P : M_FindMatch(s, maxRooms)
    \/ \E s, peerId \in P : M_Offer(s, peerId)
    \/ \E s, peerId \in P : M_Answer(s, peerId)
    \/ \E s, peerId \in P : M_IceCandidate(s, peerId)
    \/ \E s \in P : M_Disconnect(s)

SpecM == Init /\ [][NextM(Peers, MaxRooms)]_vars

SpecMWide == Init /\ [][NextM(WidePeers, WideRooms)]_vars

\* a run in which a second room can follow a deleted first one
SpecMRooms == Init /\ [][NextM(Peers, WideRooms)]_vars

----------------------------------------------------------------------------
(* Properties of the modular server *)

\* C1: the partnership map is symmetric: whenever it maps A to B it maps B to A.
C1_PartnershipSymmetric ==
    \A a \in DOMAIN partnerships :
        Has(partnerships, partnerships[a]) /\ partnerships[partnerships[a]] = a

\* C4: an offer, answer or ice-candidate of connection a with target c is
\* rejected when c is not the partner of a in the partnership map: a alone gets
\* an error event, nothing is forwarded and the manager's state is unchanged.
C4_RelayRejectsNonPartner ==
    [][\A a, c \in WidePeers : \A kind \in Signals :
          (M_Relay(a, kind, c) /\ ~(Has(partnerships, a) /\ partnerships[a] = c))
          => /\ emitted' = {ErrorMsg(a, "error", kind)}
             /\ UNCHANGED <<users, waitingQueue, partnerships, rooms>>]_vars

\* C9: a room exists iff both of its participants are registered and the room
\* field of each holds that room's id.
C9_RoomIffParticipantsPoint ==
    /\ \A r \in DOMAIN rooms : \A p \in Participants(rooms[r]) :
           Has(users, p) /\ users[p].room = r
    /\ \A p \in DOMAIN users :
           users[p].room # NULL
           => Has(rooms, users[p].room) /\ p \in Participants(rooms[users[p].room])

\* C12: the addToWaitingQueue call of find-match appends the peer and returns
\* true only if the peer is registered, not already queued and not in a room;
\* otherwise it returns false and leaves the manager unchanged.  So a find-match
\* of a partnered peer never puts that peer into the waiting queue.
C12_EnqueueOnlyIdle ==
    [][\A s \in WidePeers :
          (M_FindMatch(s, WideRooms) /\ M_getNextWaitingUser(CM).ret = NULL)
          => LET call == M_addToWaitingQueue(CM, s)
                 ok == /\ Has(users, s)
                       /\ ~Includes(waitingQueue, s)
                       /\ users[s].room = NULL
             IN /\ IF ok
                   THEN call.ret /\ call.cm.waitingQueue = Append(waitingQueue, s)
                   ELSE ~call.ret /\ call.cm = CM
                /\ Has(partnerships, s) => ~Includes(waitingQueue', s)]_vars

\* C13: the candidate that find-match takes from getNextWaitingUser and hands
\* to createPartnership is a registered peer with no partner and no room.
C13_CandidateIsIdle ==
    [][\A s \in WidePeers :
          LET waitingPartnerId == M_getNextWaitingUser(CM).ret
          IN (M_FindMatch(s, WideRooms) /\ waitingPartnerId # NULL)
             => /\ Has(users, waitingPartnerId)
                /\ ~Has(partnerships, waitingPartnerId)
                /\ users[waitingPartnerId].room = NULL]_vars

\* C14: the createPartnership(a, b) call of find-match is all-or-nothing: when a
\* or b is unregistered or already partnered, the partnership map, the rooms map
\* and every user record stay as they were; otherwise the partnership map, the
\* rooms map and both user records are updated together.
C14_CreateAllOrNothing ==
    [][\A a \in WidePeers :
          LET b == M_getNextWaitingUser(CM).ret
              free(p) == Has(users, p) /\ ~Has(partnerships, p)
              roomId == roomCounter'
          IN (M_FindMatch(a, WideRooms) /\ b # NULL)
             => IF free(a) /\ free(b)
                THEN /\ Get(partnerships', a) = b /\ Get(partnerships', b) = a
                     /\ Has(rooms', roomId) /\ ~Has(rooms, roomId)
                     /\ rooms'[roomId].participants = <<a, b>>
                     /\ users'[a].inCall /\ users'[a].room = roomId
                     /\ users'[b].inCall /\ users'[b].room = roomId
                ELSE UNCHANGED <<users, partnerships, rooms>>]_vars

\* C34: the partnership map has an even number of entries, and the
\* activePartnerships that getConnectionStats reports is a whole number, the
\* number of rooms in the rooms map.
C34_PartnershipsEvenAndCountRooms ==
    /\ Cardinality(DOMAIN partnerships) % 2 = 0
    /\ M_getConnectionStats(CM).activePartnerships
          = [whole |-> Cardinality(DOMAIN rooms), half |-> 0]

----------------------------------------------------------------------------
(* S: the setupSocketHandlers server.  Handlers of                         *)
(* src/server/textChat/ConnectionManager.js:150-272 over the               *)
(* ConnectionManager of src/server/ConnectionManager.js.                   *)

S_addUser(cm, socketId) ==
    Result([cm EXCEPT !.users = MapSet(@, socketId, [inCall |-> FALSE, room |-> NULL])],
           NULL)

S_addToWaitingQueue(cm, socketId) ==
    IF ~Includes(cm.waitingQueue, socketId)
    THEN Result([cm EXCEPT !.waitingQueue = Append(@, socketId)], TRUE)
    ELSE Result(cm, FALSE)

S_removeFromWaitingQueue(cm, socketId) ==
    LET index == IndexOf(cm.waitingQueue, socketId) IN
    IF index > 0
    THEN Result([cm EXCEPT !.waitingQueue = Splice1(@, index)], TRUE)
    ELSE Result(cm, FALSE)

S_getNextWaitingUser(cm) ==
    IF Len(cm.waitingQueue) > 0
    THEN Result([cm EXCEPT !.waitingQueue = Tail(@)], Head(cm.waitingQueue))
    ELSE Result(cm, NULL)

S_createPartnership(cm, socket1Id, socket2Id) ==
    LET roomId == cm.roomCounter + 1
        c1 == [cm EXCEPT !.roomCounter = roomId,
                         !.partnerships = MapSet(MapSet(@, socket1Id, socket2Id),
                                                 socket2Id, socket1Id),
                         !.rooms = MapSet(@, roomId,
                                          [participants |-> <<socket1Id, socket2Id>>])]
        c2 == IF Has(c1.users, socket1Id) /\ Has(c1.users, socket2Id)
              THEN [c1 EXCEPT !.users =
                       [[@ EXCEPT ![socket1Id].inCall = TRUE, ![socket1Id].room = roomId]
                           EXCEPT ![socket2Id].inCall = TRUE, ![socket2Id].room = roomId]]
              ELSE c1
    IN Result(c2, roomId)

\* the first room, in insertion order, that lists peerId
S_findRoomByPeerId(cm, peerId) ==
    LET with == {r \in DOMAIN cm.rooms : Includes(cm.rooms[r].participants, peerId)}
    IN IF with = {} THEN NoRoom
       ELSE LET roomId == CHOOSE r \in with : \A q \in with : r <= q
            IN [roomId |-> roomId, participants |-> cm.rooms[roomId].participants]

\* clearTimeout(connectionTimeouts.get(roomId)); connectionTimeouts.delete(roomId)
S_clearRoomTimeout(cm, roomId) ==
    IF roomId \in cm.connectionTimeouts
    THEN [cm EXCEPT !.pendingTimers = @ \ {roomId}, !.connectionTimeouts = @ \ {roomId}]
    ELSE cm

\* u.signalingState = "new" is the only write of that field: it is left out
S_resetUser(us, id) ==
    IF Has(us, id) THEN [us EXCEPT ![id].inCall = FALSE, ![id].room = NULL] ELSE us

S_breakPartnership(cm, socketId) ==
    LET partnerId == Get(cm.partnerships, socketId) IN
    IF partnerId # NULL
    THEN LET hasRoom == Has(cm.users, socketId) /\ cm.users[socketId].room # NULL
             room == IF hasRoom THEN cm.users[socketId].room ELSE NULL
             c1 == IF hasRoom
                   THEN [S_clearRoomTimeout(cm, room) EXCEPT !.rooms = MapDelete(@, room)]
                   ELSE cm
             c2 == [c1 EXCEPT !.users = S_resetUser(S_resetUser(@, socketId), partnerId)]
             c3 == [c2 EXCEPT !.partnerships = MapDelete(MapDelete(@, socketId), partnerId)]
         IN Result(c3, partnerId)
    ELSE Result(cm, NULL)

S_removeUser(cm, socketId) ==
    LET c1 == IF Has(cm.users, socketId) /\ cm.users[socketId].room # NULL
              THEN S_breakPartnership(cm, socketId).cm
              ELSE cm
        c2 == [c1 EXCEPT !.users = MapDelete(@, socketId)]
    IN S_removeFromWaitingQueue(c2, socketId).cm

S_validatePeers(cm, fromPeerId, toPeerId) ==
    LET room == S_findRoomByPeerId(cm, fromPeerId) IN
    IF room = NoRoom THEN NoRoom
    ELSE IF FindOther(room.participants, fromPeerId) # toPeerId THEN NoRoom
    ELSE room

S_getConnectionStats(cm) ==
    [totalUsers |-> Cardinality(DOMAIN cm.users),
     waitingUsers |-> Len(cm.waitingQueue),
     activePartnerships |-> Half(Cardinality(DOMAIN cm.partnerships))]

\* io.on("connection")
S_Connect(s) ==
    /\ socketState[s] = "new"
    /\ socketState' = [socketState EXCEPT ![s] = "open"]
    /\ LET c1 == S_addUser(CM, s).cm
       IN /\ Commit(c1)
          /\ Emit({StatsMsg(S_getConnectionStats(c1))})

\* socket.on("find-match")
S_FindMatch(s, maxRooms) ==
    /\ socketState[s] = "open"
    /\ UNCHANGED socketState
    /\ LET next == S_getNextWaitingUser(CM)
           waitingPartnerId == next.ret
       IN IF waitingPartnerId # NULL
          THEN /\ roomCounter < maxRooms
               /\ LET made == S_createPartnership(next.cm, s, waitingPartnerId)
                      roomId == made.ret
                  IN /\ Commit(made.cm)
                     /\ Emit({Msg(s, "match", waitingPartnerId, NULL, roomId, FALSE),
                              Msg(waitingPartnerId, "match", s, NULL, roomId, TRUE),
                              StatsMsg(S_getConnectionStats(made.cm))})
          ELSE LET c1 == S_addToWaitingQueue(next.cm, s).cm
               IN /\ Commit(c1)
                  /\ Emit({WaitingMsg(s, Len(c1.waitingQueue)),
                           StatsMsg(S_getConnectionStats(c1))})

\* socket.on("offer") and socket.on("answer").  After validatePeers succeeds
\* the handler calls connectionManager.updateRoomState, which this
\* ConnectionManager does not define: the call throws a TypeError and the
\* handler ends before io.to(peerId).emit.
S_OfferAnswer(s, kind, peerId, fromPeerId) ==
    /\ socketState[s] = "open"
    /\ UNCHANGED socketState
    /\ Commit(CM)
    /\ LET room == S_validatePeers(CM, fromPeerId, peerId)
       IN IF room = NoRoom
          THEN Emit({ErrorMsg(s, "signaling-error", kind)})
          ELSE Emit({})

S_Offer(s, peerId, fromPeerId) == S_OfferAnswer(s, "offer", peerId, fromPeerId)

S_Answer(s, peerId, fromPeerId) == S_OfferAnswer(s, "answer", peerId, fromPeerId)

\* socket.on("ice-candidate")
S_IceCandidate(s, peerId, fromPeerId) ==
    /\ socketState[s] = "open"
    /\ UNCHANGED socketState
    /\ Commit(CM)
    /\ LET room == S_validatePeers(CM, fromPeerId, peerId)
       IN IF room = NoRoom
          THEN Emit({ErrorMsg(s, "signaling-error", "ice-candidate")})
          ELSE Emit({Msg(peerId, "ice-candidate", NULL, fromPeerId, room.roomId, FALSE)})

\* socket.on("disconnect")
S_Disconnect(s) ==
    /\ socketState[s] = "open"
    /\ socketState' = [socketState EXCEPT ![s] = "closed"]
    /\ LET broken == S_breakPartnership(CM, s)
           partnerId == broken.ret
           c1 == S_removeUser(broken.cm, s)
       IN /\ Commit(c1)
          /\ Emit((IF partnerId # NULL THEN {PartnerLeftMsg(partnerId)} ELSE {})
                  \cup {StatsMsg(S_getConnectionStats(c1))})

NextS(P, maxRooms) ==
    \/ \E s \in P : S_Connect(s)
    \/ \E s \in P : S_FindMatch(s, maxRooms)
    \/ \E s, peerId, fromPeerId \in P : S_Offer(s, peerId, fromPeerId)
    \/ \E s, peerId, fromPeerId \in P : S_Answer(s, peerId, fromPeerId)
    \/ \E s, peerId, fromPeerId \in P : S_IceCandidate(s, peerId, fromPeerId)
    \/ \E s \in P : S_Disconnect(s)


SpecSWide == Init /\ [][NextS(WidePeers, WideRooms)]_vars

----------------------------------------------------------------------------
(* Properties of the setupSocketHandlers server *)

\* C6: every forwarded offer, answer or ice-candidate is stamped with the id of
\* the connection that sent it, so a connection that is no participant of a
\* room never causes a message to a participant of that room.
C6_RelayStampedWithSender ==
    [][\A s, peerId, fromPeerId \in WidePeers :
          (\/ S_Offer(s, peerId, fromPeerId)
           \/ S_Answer(s, peerId, fromPeerId)
           \/ S_IceCandidate(s, peerId, fromPeerId))
          => \A m \in emitted' :
                 m.event \in Signals
                 => /\ m.fromPeerId = s
                    /\ Has(rooms, m.roomId)
                    /\ s \in Participants(rooms[m.roomId])]_vars

----------------------------------------------------------------------------
(* The ConnectionManager of src/unnamed/part_002 called method by method.  *)
(* A step is one call of one public method with any socket ids as          *)
(* arguments; the armed timers fire as in the server.  addUser is called   *)
(* for an id that is not registered, as the connection handler does.       *)
(* emitted holds the name of the method called last.                       *)

Called(method) == [event |-> "call", method |-> method]

T_Call_addUser(socketId) ==
    /\ Emit({Called("addUser")})
    /\ ~Has(users, socketId)
    /\ Commit(T_addUser(CM, socketId).cm)
    /\ UNCHANGED socketState

T_Call_removeUser(socketId) ==
    /\ Emit({Called("removeUser")})
    /\ Commit(T_removeUser(CM, socketId))
    /\ UNCHANGED socketState

T_Call_addToWaitingQueue(socketId) ==
    /\ Emit({Called("addToWaitingQueue")})
    /\ Commit(T_addToWaitingQueue(CM, socketId).cm)
    /\ UNCHANGED socketState

T_Call_removeFromWaitingQueue(socketId) ==
    /\ Emit({Called("removeFromWaitingQueue")})
    /\ Commit(T_removeFromWaitingQueue(CM, socketId).cm)
    /\ UNCHANGED socketState

T_Call_getNextWaitingUser ==
    /\ Emit({Called("getNextWaitingUser")})
    /\ Commit(T_getNextWaitingUser(CM).cm)
    /\ UNCHANGED socketState

T_Call_createPartnership(socket1Id, socket2Id, maxRooms) ==
    /\ Emit({Called("createPartnership")})
    /\ roomCounter < maxRooms
    /\ Commit(T_createPartnership(CM, socket1Id, socket2Id).cm)
    /\ UNCHANGED socketState

T_Call_breakPartnership(socketId) ==
    /\ Emit({Called("breakPartnership")})
    /\ Commit(T_breakPartnership(CM, socketId).cm)
    /\ UNCHANGED socketState

\* peerId only selects the entry of room.signalingState that is written
T_Call_updateRoomState(roomId, state) ==
    /\ Emit({Called("updateRoomState")})
    /\ Commit(T_updateRoomState(CM, roomId, state, NULL))
    /\ UNCHANGED socketState

\* the event loop runs the armed timer of room roomId
T_Call_timeoutCallback(roomId) ==
    /\ Emit({Called("timeoutCallback")})
    /\ roomId \in pendingTimers
    /\ Commit(T_timeoutCallback([CM EXCEPT !.pendingTimers = @ \ {roomId}], roomId))
    /\ UNCHANGED socketState

NextTCalls(P, maxRooms) ==
    \/ \E socketId \in P : T_Call_addUser(socketId)
    \/ \E socketId \in P : T_Call_removeUser(socketId)
    \/ \E socketId \in P : T_Call_addToWaitingQueue(socketId)
    \/ \E socketId \in P : T_Call_removeFromWaitingQueue(socketId)
    \/ T_Call_getNextWaitingUser
    \/ \E socket1Id, socket2Id \in P :
           T_Call_createPartnership(socket1Id, socket2Id, maxRooms)
    \/ \E socketId \in P : T_Call_breakPartnership(socketId)
    \/ \E roomId \in 1..maxRooms, state \in ClientStates :
           T_Call_updateRoomState(roomId, state)
    \/ \E roomId \in 1..maxRooms : T_Call_timeoutCallback(roomId)

SpecTCalls == Init /\ [][NextTCalls(Peers, MaxRooms)]_vars


\* the handlers of the timeout-enabled server that write the manager's state
\* (offer, answer and ice-candidate only emit), over queues filled by direct
\* calls of addToWaitingQueue: the find-match handler enqueues only after
\* getNextWaitingUser has emptied the queue, so under SpecT the queue never
\* holds two ids
SpecTQueued ==
    Init /\ [][\/ \E s \in Peers : T_Connect(s)
               \/ \E s \in Peers : T_FindMatch(s, MaxRooms)
               \/ \E s \in Peers, state \in ClientStates, roomId \in 1..MaxRooms :
                      T_ConnectionState(s, state, roomId)
               \/ \E s \in Peers : T_Disconnect(s)
               \/ \E roomId \in 1..MaxRooms : T_TimerFire(roomId)
               \/ \E socketId \in Peers : T_Call_addToWaitingQueue(socketId)]_vars

\* C32: when find-match produces a match, the matched candidate is the first
\* id of the waiting queue, in enqueue order, that is registered and not in a
\* call: no id enqueued before it is eligible.
C32_MatchIsFifo ==
    [][\A s \in WidePeers :
          (/\ roomCounter' # roomCounter
           /\ T_FindMatch(s, WideRooms))
          => \E i \in 1..Len(waitingQueue) :
                LET eligible(p) == Has(users, p) /\ ~users[p].inCall
                    candidate == waitingQueue[i]
                IN /\ eligible(candidate)
                   /\ \A j \in 1..(i - 1) : ~eligible(waitingQueue[j])
                   /\ partnerships'[s] = candidate
                   /\ \E m \in emitted' : /\ m.event = "match"
                                           /\ m.to = s
                                           /\ m.peerId = candidate]_vars

\* s has just been matched with another peer p while s itself was queued and
\* eligible: p was enqueued before s, and s is still in the queue
C32_Witness ==
    \E m \in emitted :
        /\ m.event = "match"
        /\ m.peerId # m.to
        /\ ~m.isInitiator
        /\ Includes(waitingQueue, m.to)
        /\ Has(rooms, m.roomId)
        /\ rooms[m.roomId].state = "connecting"

\* C33: room ids are generated monotonically and never reused: the counter
\* never decreases, every room in the map has an id the counter has reached,
\* a room that enters the map has the new counter value, which is greater than
\* the old one and therefore than the id of every room created before, deleted
\* or not, and no existing id is given to other participants.
C33_RoomIdsNeverReused ==
    /\ [](\A roomId \in DOMAIN rooms : roomId \in 1..roomCounter)
    /\ [][/\ roomCounter' >= roomCounter
          /\ \A roomId \in DOMAIN rooms' \ DOMAIN rooms :
                roomId = roomCounter' /\ roomId > roomCounter
          /\ \A roomId \in DOMAIN rooms' \cap DOMAIN rooms :
                rooms'[roomId].participants = rooms[roomId].participants]_vars

\* a second room has been created after the first one was deleted
C33_Witness ==
    /\ roomCounter >= 2
    /\ Has(rooms, roomCounter)
    /\ \E roomId \in 1..(roomCounter - 1) : ~Has(rooms, roomId)

----------------------------------------------------------------------------
(* Properties of the ConnectionManager methods *)

\* C15: for two registered unpartnered peers a and b, createPartnership(a, b)
\* followed by breakPartnership(a) leaves both with inCall = false and
\* room = null, removes both directions from the partnership map, removes the
\* created room from the rooms map and leaves no timer entry for that room.
C15_CreateThenBreakRestores ==
    \A a, b \in WidePeers :
        (/\ Has(users, a) /\ Has(users, b)
         /\ ~Has(partnerships, a) /\ ~Has(partnerships, b))
        => LET made == T_createPartnership(CM, a, b)
               roomId == made.ret
               broken == T_breakPartnership(made.cm, a)
           IN /\ Has(made.cm.rooms, roomId) /\ ~Has(rooms, roomId)
              /\ roomId \in made.cm.connectionTimeouts
              /\ broken.ret = b
              /\ \A p \in {a, b} :
                     /\ ~broken.cm.users[p].inCall
                     /\ broken.cm.users[p].room = NULL
                     /\ ~Has(broken.cm.partnerships, p)
              /\ ~Has(broken.cm.rooms, roomId)
              /\ roomId \notin broken.cm.connectionTimeouts
              /\ roomId \notin broken.cm.pendingTimers

\* breakPartnership was the last call, a room has been created and none is
\* left, and two registered peers are unpartnered again
C15_Witness ==
    /\ emitted = {Called("breakPartnership")}
    /\ roomCounter > 0
    /\ rooms = EmptyMap
    /\ partnerships = EmptyMap
    /\ connectionTimeouts = {}
    /\ \E a, b \in DOMAIN users :
           /\ a # b
           /\ ~users[a].inCall /\ users[a].room = NULL
           /\ ~users[b].inCall /\ users[b].room = NULL

\* C16: breakPartnership(p) for a peer p that has no partner returns none and
\* leaves users, partnership map, rooms map, waiting queue and timers
\* unchanged, in the part_002 manager and in the modular one.
C16_BreakWithoutPartnerIsNoOp ==
    \A p \in WidePeers :
        ~Has(partnerships, p)
        => /\ T_breakPartnership(CM, p) = Result(CM, NULL)
           /\ M_breakPartnership(CM, p) = Result(CM, NULL)

\* breakPartnership was the last call, no partnership has ever been created,
\* and a peer is registered and queued
C16_Witness ==
    /\ emitted = {Called("breakPartnership")}
    /\ roomCounter = 0
    /\ partnerships = EmptyMap
    /\ \E p \in DOMAIN users : Includes(waitingQueue, p)

\* C17: addToWaitingQueue called twice in a row for the same registered
\* unpartnered peer increases the queue length by exactly 1 in total: the first
\* call appends and returns true, the second returns false and changes nothing.
C17_EnqueueTwiceAddsOne ==
    \A p \in WidePeers :
        (Has(users, p) /\ ~Has(partnerships, p))
        => LET first == T_addToWaitingQueue(CM, p)
               second == T_addToWaitingQueue(first.cm, p)
           IN /\ first.ret
              /\ first.cm.waitingQueue = Append(waitingQueue, p)
              /\ ~second.ret
              /\ second.cm = first.cm
              /\ Len(second.cm.waitingQueue) = Len(waitingQueue) + 1

\* C17, with the precondition the statement leaves out: for a registered
\* unpartnered peer that is not in the waiting queue, the first of two
\* addToWaitingQueue calls in a row appends it and returns true and the second
\* returns false and changes nothing, so the queue grows by exactly 1; for one
\* that is already queued both calls return false and change nothing.  The
\* same holds of the modular manager's method.
C17_EnqueueTwiceAddsOneIfNotQueued ==
    \A p \in WidePeers :
        (Has(users, p) /\ ~Has(partnerships, p))
        => LET first == T_addToWaitingQueue(CM, p)
               second == T_addToWaitingQueue(first.cm, p)
               m_first == M_addToWaitingQueue(CM, p)
               m_second == M_addToWaitingQueue(m_first.cm, p)
           IN /\ ~second.ret /\ second.cm = first.cm
              /\ ~m_second.ret /\ m_second.cm = m_first.cm
              /\ m_first = first
              /\ IF ~Includes(waitingQueue, p)
                 THEN /\ first.ret
                      /\ first.cm = [CM EXCEPT !.waitingQueue = Append(@, p)]
                      /\ Len(second.cm.waitingQueue) = Len(waitingQueue) + 1
                 ELSE ~first.ret /\ first.cm = CM

\* addToWaitingQueue was the last call and a registered unpartnered peer is
\* in the queue once
C17_Witness ==
    /\ emitted = {Called("addToWaitingQueue")}
    /\ \E p \in DOMAIN users :
           /\ ~Has(partnerships, p)
           /\ Cardinality({i \in 1..Len(waitingQueue) : waitingQueue[i] = p}) = 1

----------------------------------------------------------------------------
(* R: the server built from ConnectionManager(io, matchMaker, roomManager),  *)
(* src/server_unused/services/ConnectionManager.js, with the MatchMaker and  *)
(* RoomManager of src/server/services/ConnectionManager.ts:159-285.          *)
(*                                                                           *)
(* waitingQueue and blockedPairs are the MatchMaker's, rooms and roomCounter *)
(* the RoomManager's, users and connectionTimeouts the ConnectionManager's.  *)
(* No code calls clearTimeout: a timer stays armed until it fires.           *)
(*                                                                           *)
(* The MatchMaker filters its queue by its own users map.  SpecR is the      *)
(* server as wired in part_002:1-60, where that map is constructed empty and *)
(* never written.  SpecRShared gives the MatchMaker the ConnectionManager's  *)
(* users map, so that findMatch can return a peer and rooms exist.           *)
(* Date.now() - addedAt > 30000 is a choice of the ids that waited long.     *)

R_addUser(cm, socketId) ==
    [cm EXCEPT !.users = MapSet(@, socketId, [inCall |-> FALSE, room |-> NULL,
                                              connectionAttempts |-> 0])]

\* MatchMaker.users as constructed; no statement of the repository writes it
R_MatchMakerUsers == EmptyMap

R_addToWaitingQueue(cm, userId) ==
    IF ~Includes(cm.waitingQueue, userId)
    THEN Result([cm EXCEPT !.waitingQueue = Append(@, userId)], TRUE)
    ELSE Result(cm, FALSE)

R_removeFromWaitingQueue(cm, userId) ==
    LET index == IndexOf(cm.waitingQueue, userId) IN
    IF index > 0
    THEN Result([cm EXCEPT !.waitingQueue = Splice1(@, index)], TRUE)
    ELSE Result(cm, FALSE)

R_cleanWaitingQueue(cm, mmUsers) ==
    LET alive(userId) == Has(mmUsers, userId) /\ ~mmUsers[userId].inCall
    IN [cm EXCEPT !.waitingQueue = SelectSeq(@, alive)]

\* R_findMatch without the blockedPairs test
R_findMatch_IgnoresBlocked(cm, mmUsers, userId, longWaiting) ==
    LET cleaned == R_cleanWaitingQueue(cm, mmUsers)
        q == cleaned.waitingQueue
        found == {i \in 1..Len(q) : q[i] # userId /\ q[i] \in longWaiting}
    IN IF found # {}
       THEN LET match == q[CHOOSE i \in found : \A j \in found : i <= j]
            IN Result(R_removeFromWaitingQueue(cleaned, match).cm, match)
       ELSE Result(R_addToWaitingQueue(cleaned, userId).cm, NULL)

\* mmUsers is MatchMaker.users, longWaiting the ids queued for more than 30 s
R_findMatch(cm, mmUsers, userId, longWaiting) ==
    LET cleaned == R_cleanWaitingQueue(cm, mmUsers)
        q == cleaned.waitingQueue
        found == {i \in 1..Len(q) : /\ q[i] # userId
                                    /\ <<userId, q[i]>> \notin cm.blockedPairs
                                    /\ q[i] \in longWaiting}
    IN IF found # {}
       THEN LET match == q[CHOOSE i \in found : \A j \in found : i <= j]
            IN Result(R_removeFromWaitingQueue(cleaned, match).cm, match)
       ELSE Result(R_addToWaitingQueue(cleaned, userId).cm, NULL)

R_blockPair(cm, userId1, userId2) ==
    [cm EXCEPT !.blockedPairs = @ \cup {<<userId1, userId2>>, <<userId2, userId1>>}]

R_createRoom(cm, participants) ==
    LET roomId == cm.roomCounter + 1 IN
    Result([cm EXCEPT !.roomCounter = roomId,
                      !.rooms = MapSet(@, roomId, [participants |-> participants,
                                                   connected |-> FALSE])],
           roomId)

R_updateRoomStatus(cm, roomId, status) ==
    IF Has(cm.rooms, roomId)
    THEN [cm EXCEPT !.rooms[roomId].connected = status]
    ELSE cm

R_removeRoom(cm, roomId) == [cm EXCEPT !.rooms = MapDelete(@, roomId)]

\* first room in insertion order (ascending roomCounter) that includes the id
R_getRoomByParticipant(cm, participantId) ==
    LET mine == {r \in DOMAIN cm.rooms : Includes(cm.rooms[r].participants, participantId)}
    IN IF mine = {} THEN NULL ELSE CHOOSE r \in mine : \A r2 \in mine : r <= r2

R_Stats(cm) ==
    StatsMsg([totalUsers |-> Cardinality(DOMAIN cm.users),
              totalWaiting |-> Len(cm.waitingQueue),
              activeRooms |-> Cardinality({r \in DOMAIN cm.rooms : cm.rooms[r].connected})])

\* ret: the boolean returned; msgs: what the call emitted
R_validatePeerConnection(cm, fromId, toId, roomId) ==
    IF roomId = NULL
    THEN [ret |-> FALSE, msgs |-> {[to |-> fromId, event |-> "error"]}]
    ELSE [ret |-> /\ Has(cm.rooms, roomId)
                  /\ Includes(cm.rooms[roomId].participants, fromId)
                  /\ Includes(cm.rooms[roomId].participants, toId),
          msgs |-> {}]

R_setConnectionTimeout(cm, roomId) ==
    [cm EXCEPT !.connectionTimeouts = @ \cup {roomId},
               !.pendingTimers = @ \cup {roomId}]

R_failUser(cm, userId) ==
    IF Has(cm.users, userId)
    THEN [cm EXCEPT !.users[userId].inCall = FALSE,
                    !.users[userId].connectionAttempts = @ + 1]
    ELSE cm

R_handleFailedConnection(cm, roomId, user1Id, user2Id) ==
    LET blocked == R_blockPair(cm, user1Id, user2Id)
        failed == R_failUser(R_failUser(blocked, user1Id), user2Id)
        removed == R_removeRoom(failed, roomId)
    IN [cm |-> [removed EXCEPT !.connectionTimeouts = @ \ {roomId}],
        msgs |-> {[to |-> userId, event |-> "connection-failed"] :
                     userId \in {u \in {user1Id, user2Id} : Has(cm.users, u)}}]

\* R_timeoutCallback that tests `room` and not `!room.connected`
R_timeoutCallback_IgnoresConnected(cm, roomId) ==
    IF Has(cm.rooms, roomId)
    THEN R_handleFailedConnection(cm, roomId, cm.rooms[roomId].participants[1],
                                  cm.rooms[roomId].participants[2])
    ELSE [cm |-> cm, msgs |-> {}]

\* the setTimeout callback of setConnectionTimeout; user1Id and user2Id are
\* the two participants the room was created with
R_timeoutCallback(cm, roomId) ==
    IF Has(cm.rooms, roomId) /\ ~cm.rooms[roomId].connected
    THEN R_handleFailedConnection(cm, roomId, cm.rooms[roomId].participants[1],
                                  cm.rooms[roomId].participants[2])
    ELSE [cm |-> cm, msgs |-> {}]

R_Connect(s) ==
    /\ socketState[s] = "new"
    /\ socketState' = [socketState EXCEPT ![s] = "open"]
    /\ LET added == R_addUser(CM, s) IN
       /\ Commit(added)
       /\ Emit({R_Stats(added)})

\* handleFindMatch; a matched id that is not registered makes line 49 throw
R_FindMatch(s, mmUsers, maxRooms) ==
    /\ socketState[s] = "open"
    /\ UNCHANGED socketState
    /\ \E longWaiting \in SUBSET {waitingQueue[i] : i \in 1..Len(waitingQueue)} :
         LET found == R_findMatch(CM, mmUsers, s, longWaiting)
             matchedUserId == found.ret
         IN IF matchedUserId # NULL
            THEN /\ roomCounter < maxRooms
                 /\ LET created == R_createRoom(found.cm, <<s, matchedUserId>>)
                        roomId == created.ret
                        mine == [created.cm EXCEPT !.users[s].inCall = TRUE]
                    IN IF ~Has(mine.users, matchedUserId)
                       THEN Commit(mine) /\ Emit({})
                       ELSE LET both == [mine EXCEPT !.users[matchedUserId].inCall = TRUE]
                                armed == R_setConnectionTimeout(both, roomId)
                            IN /\ Commit(armed)
                               /\ Emit({Msg(s, "match", matchedUserId, NULL, roomId, TRUE),
                                        Msg(matchedUserId, "match", s, NULL, roomId, FALSE),
                                        R_Stats(armed)})
            ELSE /\ Commit(found.cm)
                 /\ Emit({Msg(s, "waiting", NULL, NULL, NULL, FALSE), R_Stats(found.cm)})

\* handleOffer, handleAnswer, handleIceCandidate
R_Relay(s, kind, peerId) ==
    /\ socketState[s] = "open"
    /\ UNCHANGED socketState
    /\ LET roomId == R_getRoomByParticipant(CM, s)
           valid == R_validatePeerConnection(CM, s, peerId, roomId)
       IN IF ~valid.ret
          THEN Commit(CM) /\ Emit(valid.msgs)
          ELSE /\ Emit(valid.msgs \cup {Msg(peerId, kind, NULL, s, roomId, FALSE)})
               /\ Commit(IF kind = "answer" THEN R_updateRoomStatus(CM, roomId, TRUE) ELSE CM)

R_Disconnect(s) ==
    /\ socketState[s] = "open"
    /\ socketState' = [socketState EXCEPT ![s] = "closed"]
    /\ LET roomId == R_getRoomByParticipant(CM, s)
           partnerId == IF roomId = NULL THEN NULL
                        ELSE FindOther(rooms[roomId].participants, s)
           left == IF roomId = NULL THEN CM ELSE R_removeRoom(CM, roomId)
           gone == R_removeFromWaitingQueue([left EXCEPT !.users = MapDelete(@, s)], s).cm
       IN /\ Commit(gone)
          /\ Emit((IF partnerId # NULL THEN {PartnerLeftMsg(partnerId)} ELSE {})
                  \cup {R_Stats(gone)})

R_TimerFire(roomId) ==
    /\ roomId \in pendingTimers
    /\ UNCHANGED socketState
    /\ LET fired == R_timeoutCallback([CM EXCEPT !.pendingTimers = @ \ {roomId}], roomId)
       IN Commit(fired.cm) /\ Emit(fired.msgs)

\* everything but find-match
R_Others(P, maxRooms) ==
    \/ \E s \in P : R_Connect(s)
    \/ \E s \in P, kind \in Signals, peerId \in WidePeers : R_Relay(s, kind, peerId)
    \/ \E s \in P : R_Disconnect(s)
    \/ \E roomId \in 1..maxRooms : R_TimerFire(roomId)

NextR(P, maxRooms) ==
    \/ \E s \in P : R_FindMatch(s, R_MatchMakerUsers, maxRooms)
    \/ R_Others(P, maxRooms)

NextRShared(P, maxRooms) ==
    \/ \E s \in P : R_FindMatch(s, users, maxRooms)
    \/ R_Others(P, maxRooms)

SpecR == Init /\ [][NextR(Peers, MaxRooms)]_vars
SpecRShared == Init /\ [][NextRShared(Peers, MaxRooms)]_vars

C40_FindMatchPairsWithWaitingPeer ==
    [][\A s \in WidePeers :
          (R_FindMatch(s, R_MatchMakerUsers, WideRooms) \/ R_FindMatch(s, users, WideRooms))
          => LET waiting == {waitingQueue[i] : i \in 1..Len(waitingQueue)}
                 candidates == {y \in waiting : /\ y # s
                                                /\ Has(users, y)
                                                /\ ~users[y].inCall
                                                /\ <<s, y>> \notin blockedPairs}
             IN IF candidates # {}
                THEN /\ roomCounter' = roomCounter + 1
                     /\ Has(rooms', roomCounter')
                     /\ \E y \in waiting :
                            /\ rooms'[roomCounter'].participants = <<s, y>>
                            /\ \E m \in emitted' :
                                   m.to = s /\ m.event = "match" /\ m.peerId = y
                ELSE /\ Includes(waitingQueue', s)
                     /\ \E m \in emitted' : m.to = s /\ m.event = "waiting"
                     /\ rooms' = rooms]_vars

----------------------------------------------------------------------------
(* H: the heartbeat server, src/index.js:663-1028.                           *)
(*                                                                           *)
(* The heartbeat handler and the heartbeat interval only write lastActive    *)
(* and are left out with the timestamps; which user is stale is a choice.    *)
(* ConnectionManager.removeUser calls this.leaveRoom, which the class does   *)
(* not define: the call throws a TypeError.  Nothing catches it and this     *)
(* variant installs no uncaughtException handler, so the process exits:      *)
(* every socket is closed and no handler runs any more.                      *)

H_addUser(cm, socketId) ==
    [cm EXCEPT !.users = MapSet(@, socketId, [inCall |-> FALSE, room |-> NULL])]

H_addToWaitingQueue(cm, socketId) ==
    IF ~Includes(cm.waitingQueue, socketId)
    THEN Result([cm EXCEPT !.waitingQueue = Append(@, socketId)], TRUE)
    ELSE Result(cm, FALSE)

H_removeFromWaitingQueue(cm, socketId) ==
    LET index == IndexOf(cm.waitingQueue, socketId) IN
    IF index > 0
    THEN Result([cm EXCEPT !.waitingQueue = Splice1(@, index)], TRUE)
    ELSE Result(cm, FALSE)

H_createPartnership(cm, socket1Id, socket2Id) ==
    LET roomId == cm.roomCounter + 1
        paired == [cm EXCEPT !.roomCounter = roomId,
                             !.partnerships = MapSet(MapSet(@, socket1Id, socket2Id),
                                                     socket2Id, socket1Id)]
    IN IF Has(cm.users, socket1Id) /\ Has(cm.users, socket2Id)
       THEN Result([paired EXCEPT
                      !.users = [u \in DOMAIN @ |->
                                   IF u \in {socket1Id, socket2Id}
                                   THEN [inCall |-> TRUE, room |-> roomId]
                                   ELSE @[u]]],
                   roomId)
       ELSE Result(paired, roomId)

H_breakPartnership(cm, socketId) ==
    LET partnerId == Get(cm.partnerships, socketId) IN
    IF partnerId # NULL
    THEN LET reset == IF Has(cm.users, partnerId)
                      THEN [cm EXCEPT !.users[partnerId] = [inCall |-> FALSE, room |-> NULL]]
                      ELSE cm
         IN Result([reset EXCEPT !.partnerships = MapDelete(MapDelete(@, partnerId), socketId)],
                   partnerId)
    ELSE Result(cm, NULL)

\* threw: the call ended in the TypeError of this.leaveRoom(...)
H_removeUser(cm, socketId) ==
    IF Has(cm.users, socketId) /\ cm.users[socketId].room # NULL
    THEN [cm |-> cm, ret |-> NULL, threw |-> TRUE]
    ELSE LET deleted == [cm EXCEPT !.users = MapDelete(@, socketId)]
             broken == H_breakPartnership(H_removeFromWaitingQueue(deleted, socketId).cm,
                                          socketId)
         IN [cm |-> broken.cm, ret |-> broken.ret, threw |-> FALSE]

RECURSIVE H_getNextWaitingUser(_)
H_getNextWaitingUser(cm) ==
    IF Len(cm.waitingQueue) > 0
    THEN LET nextId == Head(cm.waitingQueue)
             shifted == [cm EXCEPT !.waitingQueue = Tail(@)]
         IN IF Has(cm.users, nextId) /\ ~Has(cm.partnerships, nextId)
            THEN Result(shifted, nextId)
            ELSE H_getNextWaitingUser(shifted)
    ELSE Result(cm, NULL)

H_getConnectionStats(cm) ==
    [totalUsers |-> Cardinality(DOMAIN cm.users),
     waitingUsers |-> Len(cm.waitingQueue),
     activePartnerships |-> Half(Cardinality(DOMAIN cm.partnerships))]


H_MatchMsg(to, peerId, roomId) ==
    [to |-> to, event |-> "match", peerId |-> peerId, roomId |-> roomId]
H_RematchLeftMsg(to) ==
    [to |-> to, event |-> "partner-left", reason |-> "Partner requested new match"]
H_RelayMsg(to, kind, peerId) == [to |-> to, event |-> kind, peerId |-> peerId]

H_Connect(s) ==
    /\ socketState[s] = "new"
    /\ socketState' = [socketState EXCEPT ![s] = "open"]
    /\ LET added == H_addUser(CM, s) IN
       /\ Commit(added)
       /\ Emit({StatsMsg(H_getConnectionStats(added))})

H_FindMatch(s, maxRooms) ==
    /\ socketState[s] = "open"
    /\ UNCHANGED socketState
    /\ LET broken == H_breakPartnership(CM, s)
           oldPartnerId == broken.ret
           left == IF oldPartnerId # NULL THEN {H_RematchLeftMsg(oldPartnerId)} ELSE {}
           next == H_getNextWaitingUser(broken.cm)
           waitingPartnerId == next.ret
       IN IF waitingPartnerId # NULL
          THEN /\ roomCounter < maxRooms
               /\ LET created == H_createPartnership(next.cm, s, waitingPartnerId)
                  IN /\ Commit(created.cm)
                     /\ Emit(left \cup
                             {H_MatchMsg(s, waitingPartnerId, created.ret),
                              H_MatchMsg(waitingPartnerId, s, created.ret),
                              StatsMsg(H_getConnectionStats(created.cm))})
          ELSE LET queued == H_addToWaitingQueue(next.cm, s).cm
               IN /\ Commit(queued)
                  /\ Emit(left \cup {WaitingMsg(s, Len(queued.waitingQueue)),
                                     StatsMsg(H_getConnectionStats(queued))})

\* the offer, answer and ice-candidate handlers: no test of the target
H_Relay(s, kind, peerId) ==
    /\ socketState[s] = "open"
    /\ UNCHANGED socketState
    /\ Commit(CM)
    /\ Emit({H_RelayMsg(peerId, kind, s)})

\* the disconnect handler; the stale-connection sweep reaches it through
\* socket.disconnect(true)
H_Disconnect(s) ==
    /\ socketState[s] = "open"
    /\ LET removed == H_removeUser(CM, s)
           partnerId == removed.ret
       IN IF removed.threw
          THEN /\ socketState' = [p \in DOMAIN socketState |-> "closed"]
               /\ Commit(removed.cm)
               /\ Emit({})
          ELSE /\ socketState' = [socketState EXCEPT ![s] = "closed"]
               /\ Commit(removed.cm)
               /\ Emit((IF partnerId # NULL THEN {PartnerLeftMsg(partnerId)} ELSE {})
                       \cup {StatsMsg(H_getConnectionStats(removed.cm))})

NextH(P, maxRooms) ==
    \/ \E s \in P : H_Connect(s)
    \/ \E s \in P : H_FindMatch(s, maxRooms)
    \/ \E s \in P, kind \in Signals, peerId \in P : H_Relay(s, kind, peerId)
    \/ \E s \in P : H_Disconnect(s)

SpecH == Init /\ [][NextH(Peers, MaxRooms)]_vars

\* C27: when a peer that is in a room disconnects, the disconnect handler
\* removes the peer from users, from the waiting queue and from the
\* partnership map, and the partner receives partner-left.
C27_DisconnectCascadeCompletes ==
    [][\A s \in DOMAIN users :
          (users[s].room # NULL /\ H_Disconnect(s))
          => /\ ~Has(users', s)
             /\ ~Includes(waitingQueue', s)
             /\ ~Has(partnerships', s)
             /\ Has(partnerships, s)
                => \E m \in emitted' : m.to = partnerships[s] /\ m.event = "partner-left"]_vars

----------------------------------------------------------------------------
(* L: the capacity-limited server, src/unnamed/part_001.                     *)
(*                                                                           *)
(* The server is run with MAX_CLIENTS=2 in its environment.  Its             *)
(* ConnectionManager defines neither getNextWaitingUser nor                  *)
(* removeFromWaitingQueue: the find-match handler and removeUser end in a    *)
(* TypeError at those calls.  The handlers catch it; in the cleanup interval *)
(* the process-level uncaughtException handler does.  A socket whose         *)
(* registration was refused stays connected with no listener ("rejected").   *)

\* config.MAX_CLIENTS
MAX_CLIENTS == 2

L_NewUser == [inCall |-> FALSE, room |-> NULL, connectionAttempts |-> 0]

L_ActiveUsersMsg(cm) ==
    [to |-> BROADCAST, event |-> "active-users", activeUsers |-> Cardinality(DOMAIN cm.users)]

\* addUser without the capacity test
L_addUser_NoLimit(cm, socketId) ==
    LET added == [cm EXCEPT !.users = MapSet(@, socketId, L_NewUser)]
    IN [cm |-> added, threw |-> FALSE, msgs |-> {L_ActiveUsersMsg(added)}]

\* threw: the call ended in an exception; msgs: what it emitted before
L_addUser(cm, socketId) ==
    IF Cardinality(DOMAIN cm.users) >= MAX_CLIENTS
    THEN [cm |-> cm, threw |-> TRUE, msgs |-> {}]
    ELSE LET added == [cm EXCEPT !.users = MapSet(@, socketId, L_NewUser)]
         IN [cm |-> added, threw |-> FALSE, msgs |-> {L_ActiveUsersMsg(added)}]

\* users.delete, then the TypeError of this.removeFromWaitingQueue(...)
L_removeUser(cm, socketId) ==
    [cm |-> [cm EXCEPT !.users = MapDelete(@, socketId)], threw |-> TRUE, msgs |-> {}]

L_resetUser(cm, socketId) ==
    IF Has(cm.users, socketId)
    THEN [cm EXCEPT !.users[socketId].inCall = FALSE, !.users[socketId].room = NULL]
    ELSE cm

L_breakPartnership(cm, socketId) ==
    IF ~Has(cm.partnerships, socketId) THEN Result(cm, NULL)
    ELSE LET partnership == cm.partnerships[socketId]
             reset == L_resetUser(L_resetUser(cm, partnership.partnerId), socketId)
         IN Result([reset EXCEPT !.partnerships =
                                    MapDelete(MapDelete(@, partnership.partnerId), socketId)],
                   partnership)

L_createPartnership(cm, socket1Id, socket2Id) ==
    LET roomId == cm.roomCounter + 1
        c1 == [cm EXCEPT !.roomCounter = roomId,
                         !.partnerships =
                             MapSet(MapSet(@, socket1Id, [partnerId |-> socket2Id,
                                                          roomId |-> roomId]),
                                    socket2Id, [partnerId |-> socket1Id, roomId |-> roomId])]
        c2 == IF Has(c1.users, socket1Id) /\ Has(c1.users, socket2Id)
              THEN [c1 EXCEPT !.users =
                       [[@ EXCEPT ![socket1Id].inCall = TRUE, ![socket1Id].room = roomId]
                           EXCEPT ![socket2Id].inCall = TRUE, ![socket2Id].room = roomId]]
              ELSE c1
    IN Result(c2, roomId)

L_getStats(cm) ==
    [totalUsers |-> Cardinality(DOMAIN cm.users),
     waitingUsers |-> Len(cm.waitingQueue),
     activePartnerships |-> Half(Cardinality(DOMAIN cm.partnerships))]

L_ErrorMsg(to, message) == [to |-> to, event |-> "error", message |-> message]

L_Connect(s) ==
    /\ socketState[s] = "new"
    /\ LET added == L_addUser(CM, s) IN
       IF added.threw
       THEN /\ socketState' = [socketState EXCEPT ![s] = "rejected"]
            /\ Commit(added.cm)
            /\ Emit(added.msgs \cup {L_ErrorMsg(s, "Connection failed")})
       ELSE /\ socketState' = [socketState EXCEPT ![s] = "open"]
            /\ Commit(added.cm)
            /\ Emit(added.msgs \cup {StatsMsg(L_getStats(added.cm))})

\* find-match: breakPartnership, then the TypeError of getNextWaitingUser()
L_FindMatch(s) ==
    /\ socketState[s] = "open"
    /\ UNCHANGED socketState
    /\ LET broken == L_breakPartnership(CM, s) IN
       /\ Commit(broken.cm)
       /\ Emit((IF Has(partnerships, s)
                THEN {[to |-> broken.ret.partnerId, event |-> "partner-left"]}
                ELSE {})
               \cup {L_ErrorMsg(s, "Failed to find match")})

L_Relay(s, kind, peerId) ==
    /\ socketState[s] = "open"
    /\ UNCHANGED socketState
    /\ Commit(CM)
    /\ Emit(IF Has(partnerships, s) /\ partnerships[s].partnerId = peerId
            THEN {[to |-> peerId, event |-> kind, peerId |-> s]}
            ELSE {})

\* disconnect: removeUser throws after users.delete, stats-update is not reached
L_Disconnect(s) ==
    /\ socketState[s] = "open"
    /\ socketState' = [socketState EXCEPT ![s] = "closed"]
    /\ LET broken == L_breakPartnership(CM, s)
           removed == L_removeUser(broken.cm, s)
       IN /\ Commit(removed.cm)
          /\ Emit((IF Has(partnerships, s)
                   THEN {[to |-> broken.ret.partnerId, event |-> "partner-left"]}
                   ELSE {})
                  \cup removed.msgs
                  \cup (IF removed.threw THEN {} ELSE {StatsMsg(L_getStats(removed.cm))}))

\* cleanup(): the first stale user is removed and the TypeError ends the loop
L_Cleanup(s) ==
    /\ Has(users, s)
    /\ UNCHANGED socketState
    /\ LET removed == L_removeUser(CM, s) IN
       /\ Commit(removed.cm)
       /\ Emit(removed.msgs)

NextL(P) ==
    \/ \E s \in P : L_Connect(s)
    \/ \E s \in P : L_FindMatch(s)
    \/ \E s \in P, kind \in Signals, peerId \in P : L_Relay(s, kind, peerId)
    \/ \E s \in P : L_Disconnect(s)
    \/ \E s \in P : L_Cleanup(s)

\* one socket more than NumPeers, so that a connection arrives at capacity
SpecL == Init /\ [][NextL(WidePeers)]_vars

\* createPartnership called directly: no handler reaches it, because the
\* find-match handler throws one statement before
L_Call_createPartnership(socket1Id, socket2Id, maxRooms) ==
    /\ Emit({Called("createPartnership")})
    /\ roomCounter < maxRooms
    /\ Commit(L_createPartnership(CM, socket1Id, socket2Id).cm)
    /\ UNCHANGED socketState

SpecLCalls ==
    Init /\ [][\/ NextL(WidePeers)
               \/ \E socket1Id, socket2Id \in WidePeers :
                      L_Call_createPartnership(socket1Id, socket2Id, MaxRooms)]_vars

\* C28: the number of registered peers never exceeds MAX_CLIENTS, and a
\* connection arriving when the registry is at the maximum is rejected with
\* an error event and leaves users, the queue and the partnership map unchanged.
C28_CapacityRespected ==
    /\ [](Cardinality(DOMAIN users) <= MAX_CLIENTS)
    /\ [][\A s \in WidePeers :
            (/\ socketState[s] = "new"
             /\ Cardinality(DOMAIN users) >= MAX_CLIENTS
             /\ L_Connect(s))
            => /\ \E m \in emitted' : m.to = s /\ m.event = "error"
               /\ UNCHANGED <<users, waitingQueue, partnerships>>]_vars

\* a connection has just been refused at the maximum
C28_Witness ==
    \E s \in WidePeers :
        /\ socketState[s] = "rejected"
        /\ Cardinality(DOMAIN users) = MAX_CLIENTS
        /\ L_ErrorMsg(s, "Connection failed") \in emitted

----------------------------------------------------------------------------
(* X: the text-chat server, src/server/textChat/ConnectionManager.js:1-148   *)
(* and src/server/textChat/textChatServer.js.                                *)
(*                                                                           *)
(* A match id `match_<time>_<random>` is the number matchCounter counts.     *)
(* createMatch is async: it runs up to its await of the two profile lookups  *)
(* (X_createMatch), other handlers run while it waits, and it goes on when   *)
(* the lookups have settled (X_ResumeCreateMatch), or returns null when one  *)
(* of them failed.  The profile data and the messages of a match are left    *)
(* out.                                                                      *)
(*                                                                           *)
(* TextChatConnectionManager defines no getNextWaitingUser: the find-match   *)
(* handler ends in a TypeError at its first statement.  SpecXCalls therefore *)
(* runs the handlers together with direct calls of addToWaitingQueue and     *)
(* createMatch.  SpecXDequeuing runs the handlers over a manager that also   *)
(* has the getNextWaitingUser of src/server/ConnectionManager.js:44-49, so   *)
(* that the rest of the find-match handler is reached.                       *)

X_addUser(cm, socketId) ==
    IF ~Has(cm.users, socketId)
    THEN Result([cm EXCEPT !.users = MapSet(@, socketId, [isMatching |-> FALSE,
                                                          matchId |-> NULL])], TRUE)
    ELSE Result(cm, FALSE)

X_setMatching(cm, socketId, isMatching) ==
    IF Has(cm.users, socketId)
    THEN [cm EXCEPT !.users[socketId].isMatching = isMatching]
    ELSE cm

X_addToWaitingQueue(cm, socketId) ==
    IF ~Includes(cm.waitingQueue, socketId)
    THEN Result(X_setMatching([cm EXCEPT !.waitingQueue = Append(@, socketId)],
                              socketId, TRUE), TRUE)
    ELSE Result(cm, FALSE)

X_removeFromWaitingQueue(cm, socketId) ==
    LET index == IndexOf(cm.waitingQueue, socketId) IN
    IF index > 0
    THEN Result(X_setMatching([cm EXCEPT !.waitingQueue = Splice1(@, index)],
                              socketId, FALSE), TRUE)
    ELSE Result(cm, FALSE)

\* createMatch up to its await: ret is NULL when it returned null at once,
\* else the call now waiting in suspended
X_createMatch(cm, socket1Id, socket2Id) ==
    IF ~Has(cm.users, socket1Id) \/ ~Has(cm.users, socket2Id)
    THEN Result(cm, NULL)
    ELSE LET call == [matchId |-> cm.matchCounter + 1,
                      socket1Id |-> socket1Id, socket2Id |-> socket2Id]
         IN Result([cm EXCEPT !.matchCounter = @ + 1, !.suspended = @ \cup {call}], call)

X_setMatchId(cm, socketId, matchId) ==
    IF Has(cm.users, socketId)
    THEN [cm EXCEPT !.users[socketId].matchId = matchId]
    ELSE cm

\* createMatch after its await; lookedUp: both profile lookups succeeded.
\* user1 and user2 are the objects read before the await: a user removed in
\* the meantime is written to, but is no longer in the users map
X_resumeCreateMatch(cm, call, lookedUp) ==
    LET resumed == [cm EXCEPT !.suspended = @ \ {call}] IN
    IF ~lookedUp
    THEN Result(resumed, NULL)
    ELSE LET match == [id |-> call.matchId,
                       participants |-> <<[socketId |-> call.socket1Id, confirmed |-> FALSE],
                                          [socketId |-> call.socket2Id, confirmed |-> FALSE]>>,
                       status |-> "pending"]
             stored == [resumed EXCEPT !.matches = MapSet(@, call.matchId, match)]
         IN Result(X_setMatchId(X_setMatchId(stored, call.socket1Id, call.matchId),
                                call.socket2Id, call.matchId),
                   match)

X_confirmMatch(cm, matchId, socketId) ==
    IF ~Has(cm.matches, matchId) THEN Result(cm, FALSE)
    ELSE LET ps == cm.matches[matchId].participants
             found == {i \in 1..Len(ps) : ps[i].socketId = socketId}
         IN IF found = {} THEN Result(cm, FALSE)
            ELSE LET i == CHOOSE k \in found : \A j \in found : k <= j
                     confirmed == [ps EXCEPT ![i].confirmed = TRUE]
                     allConfirmed == \A k \in 1..Len(confirmed) : confirmed[k].confirmed
                 IN Result([cm EXCEPT !.matches[matchId].participants = confirmed,
                                      !.matches[matchId].status =
                                          IF allConfirmed THEN "active" ELSE @],
                           allConfirmed)

\* Array.prototype.find over the participants: the first one that is not socketId
X_otherParticipant(participants, socketId) ==
    IF participants[1].socketId # socketId THEN participants[1].socketId
    ELSE IF participants[2].socketId # socketId THEN participants[2].socketId
    ELSE NULL

X_clearUser(cm, socketId) ==
    IF Has(cm.users, socketId)
    THEN [cm EXCEPT !.users[socketId].matchId = NULL, !.users[socketId].isMatching = FALSE]
    ELSE cm

X_breakMatch(cm, socketId) ==
    IF ~Has(cm.users, socketId) \/ cm.users[socketId].matchId = NULL
    THEN Result(cm, NULL)
    ELSE LET matchId == cm.users[socketId].matchId IN
         IF ~Has(cm.matches, matchId) THEN Result(cm, NULL)
         ELSE LET ps == cm.matches[matchId].participants
                  deleted == [cm EXCEPT !.matches = MapDelete(@, matchId)]
              IN Result(X_clearUser(X_clearUser(deleted, ps[1].socketId), ps[2].socketId),
                        X_otherParticipant(ps, socketId))

X_removeUser(cm, socketId) ==
    LET broken == IF Has(cm.users, socketId) /\ cm.users[socketId].matchId # NULL
                  THEN X_breakMatch(cm, socketId).cm
                  ELSE cm
    IN X_removeFromWaitingQueue([broken EXCEPT !.users = MapDelete(@, socketId)], socketId).cm

X_getStats(cm) ==
    [totalUsers |-> Cardinality(DOMAIN cm.users),
     activeMatches |-> Cardinality({m \in DOMAIN cm.matches : cm.matches[m].status = "active"}),
     waitingUsers |-> Len(cm.waitingQueue)]

X_Connect(s) ==
    /\ socketState[s] = "new"
    /\ socketState' = [socketState EXCEPT ![s] = "open"]
    /\ LET added == X_addUser(CM, s).cm IN
       /\ Commit(added)
       /\ Emit({StatsMsg(X_getStats(added))})

\* find-match: connectionManager.getNextWaitingUser is not a function
X_FindMatch(s) ==
    /\ socketState[s] = "open"
    /\ UNCHANGED socketState
    /\ Commit(CM)
    /\ Emit({})

X_ConfirmMatch(s, matchId) ==
    /\ socketState[s] = "open"
    /\ UNCHANGED socketState
    /\ LET confirmed == X_confirmMatch(CM, matchId, s) IN
       /\ Commit(confirmed.cm)
       /\ Emit(IF confirmed.ret
               THEN {[to |-> confirmed.cm.matches[matchId].participants[i].socketId,
                      event |-> "match-confirmed", matchId |-> matchId] : i \in 1..2}
               ELSE {})

X_ChatMessage(s) ==
    /\ socketState[s] = "open"
    /\ UNCHANGED socketState
    /\ Commit(CM)
    /\ LET matchId == IF Has(users, s) THEN users[s].matchId ELSE NULL
           recipient == IF matchId # NULL /\ Has(matches, matchId)
                        THEN X_otherParticipant(matches[matchId].participants, s)
                        ELSE NULL
       IN Emit(IF recipient = NULL THEN {}
               ELSE {[to |-> recipient, event |-> "chat-message"],
                     [to |-> s, event |-> "message-delivered"]})

X_Disconnect(s) ==
    /\ socketState[s] = "open"
    /\ socketState' = [socketState EXCEPT ![s] = "closed"]
    /\ LET broken == X_breakMatch(CM, s)
           removed == X_removeUser(broken.cm, s)
       IN /\ Commit(removed)
          /\ Emit((IF broken.ret # NULL THEN {PartnerLeftMsg(broken.ret)} ELSE {})
                  \cup {StatsMsg(X_getStats(removed))})

\* the continuation of a createMatch call, run when its lookups have settled
X_ResumeCreateMatch(call, lookedUp) ==
    /\ call \in suspended
    /\ UNCHANGED socketState
    /\ Commit(X_resumeCreateMatch(CM, call, lookedUp).cm)
    /\ Emit({Called("createMatch")})

X_Call_addToWaitingQueue(socketId) ==
    /\ Emit({Called("addToWaitingQueue")})
    /\ Commit(X_addToWaitingQueue(CM, socketId).cm)
    /\ UNCHANGED socketState

X_Call_createMatch(socket1Id, socket2Id, maxMatches) ==
    /\ matchCounter < maxMatches
    /\ Emit({Called("createMatch")})
    /\ Commit(X_createMatch(CM, socket1Id, socket2Id).cm)
    /\ UNCHANGED socketState

NextXCalls(P, maxMatches) ==
    \/ \E s \in P : X_Connect(s)
    \/ \E s \in P : X_FindMatch(s)
    \/ \E s \in P, matchId \in 1..maxMatches : X_ConfirmMatch(s, matchId)
    \/ \E s \in P : X_ChatMessage(s)
    \/ \E s \in P : X_Disconnect(s)
    \/ \E call \in suspended, lookedUp \in BOOLEAN : X_ResumeCreateMatch(call, lookedUp)
    \/ \E socketId \in P : X_Call_addToWaitingQueue(socketId)
    \/ \E socket1Id \in P, socket2Id \in P : X_Call_createMatch(socket1Id, socket2Id, maxMatches)

SpecXCalls == Init /\ [][NextXCalls(Peers, MaxRooms)]_vars

\* find-match with getNextWaitingUser defined, up to the await of createMatch
X_FindMatchDequeuing(s, maxMatches) ==
    /\ socketState[s] = "open"
    /\ UNCHANGED socketState
    /\ LET next == S_getNextWaitingUser(CM)
           waitingPartnerId == next.ret
       IN IF waitingPartnerId # NULL
          THEN /\ matchCounter < maxMatches
               /\ Commit(X_createMatch(next.cm, s, waitingPartnerId).cm)
               /\ Emit(IF Has(users, s) /\ Has(users, waitingPartnerId)
                       THEN {}
                       ELSE {[to |-> s, event |-> "error"]})
          ELSE LET queued == X_addToWaitingQueue(next.cm, s).cm
               IN /\ Commit(queued)
                  /\ Emit({[to |-> s, event |-> "waiting"], StatsMsg(X_getStats(queued))})

\* the find-match handler after its await: the error event when createMatch
\* returned null, else a match event for each participant and stats-update.
\* For a match of an id with itself otherParticipant is undefined and the
\* forEach throws before anything is emitted.
X_ResumeFindMatch(call, lookedUp) ==
    /\ call \in suspended
    /\ UNCHANGED socketState
    /\ LET resumed == X_resumeCreateMatch(CM, call, lookedUp).cm IN
       /\ Commit(resumed)
       /\ Emit(IF ~lookedUp THEN {[to |-> call.socket1Id, event |-> "error"]}
               ELSE IF call.socket1Id = call.socket2Id THEN {}
               ELSE {Msg(call.socket1Id, "match", call.socket2Id, NULL, call.matchId, FALSE),
                     Msg(call.socket2Id, "match", call.socket1Id, NULL, call.matchId, FALSE),
                     StatsMsg(X_getStats(resumed))})

SpecXDequeuing ==
    Init /\ [][\/ \E s \in Peers : X_Connect(s)
               \/ \E s \in Peers : X_FindMatchDequeuing(s, WideRooms)
               \/ \E socket1Id \in Peers, socket2Id \in Peers, matchId \in 1..WideRooms,
                     lookedUp \in BOOLEAN :
                      X_ResumeFindMatch([matchId |-> matchId, socket1Id |-> socket1Id,
                                         socket2Id |-> socket2Id], lookedUp)
               \/ \E s \in Peers, matchId \in 1..WideRooms : X_ConfirmMatch(s, matchId)
               \/ \E s \in Peers : X_ChatMessage(s)
               \/ \E s \in Peers : X_Disconnect(s)]_vars

====
